---------------------------- MODULE Spec2Model ----------------------------
(***************************************************************************)
(* Model of the peer layer of the BitTorrent client:                       *)
(*   backend/app/peer.py   PeerConnection, PeerManager, BlockRequest       *)
(*   backend/main.py       the /api/download/start handler                 *)
(*                                                                         *)
(* The code is asyncio code: a coroutine runs without interruption until   *)
(* it awaits something that is not ready (open_connection, a readexactly   *)
(* whose bytes have not arrived, wait_closed, a held Lock).  One action of *)
(* the model is one such uninterrupted run of one task.                    *)
(*                                                                         *)
(*   Spec           every operation, by concurrent callers                 *)
(*   SpecHandshake  add_peer against every kind of handshake response      *)
(*   SpecRegistry   the operations on the registry, add_peer and close_all *)
(*   SpecLookup     get_peer_for_piece among add_peer and close_all        *)
(*   SpecSession    add_peer, close_all and connect on a held session      *)
(*   SpecRequests   request_piece on the sessions of add_peer, close_all   *)
(*   SpecConnect    the loop of main.py calling add_peer for each peer     *)
(*   SpecClose      close_all whose wait_closed may raise, among           *)
(*                  request_piece and add_peer; SpecCloseFair with the     *)
(*                  fairness of the event loop                             *)
(*                                                                         *)
(* and of the functions of                                                 *)
(*   backend/app/bencode.py   encode, decode                               *)
(*   backend/app/torrent.py   Torrent._load_torrent_file, _parse_info      *)
(*   backend/app/tracker.py   Tracker._parse_tracker_response, announce    *)
(* each applied to inputs drawn from a bounded set:                        *)
(*                                                                         *)
(*   SpecCodec      encode of a value, then decode of the bytes            *)
(*   SpecDecode     decode of bytes that are not well-formed               *)
(*   SpecMetadata   Torrent(path) on torrent files                         *)
(*   SpecTracker    http_announce against the answers of a tracker         *)
(*   SpecPeersCompact  _parse_peers_compact on byte strings                *)
(*   SpecAnnounce   announce(event) on torrents with each kind of URL      *)
(***************************************************************************)
EXTENDS Integers, Sequences, FiniteSets, TLC

(***************************************************************************)
(* Bounds of the model.                                                    *)
(***************************************************************************)
NumTasks == 2
NumAddrs == 2
MaxSessions == 2
MaxCalls == 3
MaxPeerMsgs == 1
NumPieces == 2
MaxPeerList == 2
MaxItems == 2
MaxText == 3
MaxPieces == 2
MaxFiles == 2
MaxCompactLen == 15

Tasks == 1..NumTasks
Addrs == 1..NumAddrs
SessIds == 1..MaxSessions
Pieces == 0..(NumPieces - 1)

(***************************************************************************)
(* Program constants.                                                      *)
(***************************************************************************)
\* struct.pack("!B", 19): the protocol string length byte
PSTRLEN == 19
\* readexactly(68): the handshake length
HANDSHAKE_LEN == 68
\* message id of a piece
MSG_PIECE == 7
\* BlockRequest.length: 2**14, the size of a block
BLOCK_LEN == 16384

\* Tracker.__init__: self.interval = 1800
DEFAULT_INTERVAL == 1800

\* Tracker.__init__: self.min_interval = 300
DEFAULT_MIN_INTERVAL == 300

\* b"BitTorrent protocol"
PSTR == <<66, 105, 116, 84, 111, 114, 114, 101, 110, 116, 32,
          112, 114, 111, 116, 111, 99, 111, 108>>

\* bytes(8)
Reserved == [i \in 1..8 |-> 0]

\* PeerManager.info_hash: the 20-byte SHA-1 of the torrent's info value
InfoHash == [i \in 1..20 |-> 17]

(***************************************************************************)
(* Bytes: struct.pack / struct.unpack and Python slices.                   *)
(***************************************************************************)
\* struct.pack("!I", n)
Pack32(n) == << (n \div 16777216) % 256, (n \div 65536) % 256,
                (n \div 256) % 256, n % 256 >>

\* struct.unpack("!I", b)[0]
Unpack32(b) == b[1] * 16777216 + b[2] * 65536 + b[3] * 256 + b[4]

\* b[lo:hi] of Python, 0-based and half-open, clamped to the length
Slice(b, lo, hi) ==
  LET h == IF hi > Len(b) THEN Len(b) ELSE hi
  IN  IF lo >= h THEN << >> ELSE SubSeq(b, lo + 1, h)

Drop(b, n) == SubSeq(b, n + 1, Len(b))

(***************************************************************************)
(* asyncio.StreamReader.readexactly(n) on a buffer: ValueError for n < 0,  *)
(* b"" for n = 0, the n bytes when they are buffered, IncompleteReadError  *)
(* at end of stream, RuntimeError when another coroutine already waits on  *)
(* the same reader, and otherwise the caller is suspended.                 *)
(***************************************************************************)
ReadExactly(buf, n, eof, otherWaiting) ==
  IF n < 0 THEN [st |-> "error", data |-> << >>, rest |-> buf]
  ELSE IF n = 0 THEN [st |-> "ok", data |-> << >>, rest |-> buf]
  ELSE IF Len(buf) >= n
       THEN [st |-> "ok", data |-> SubSeq(buf, 1, n), rest |-> Drop(buf, n)]
  ELSE IF eof THEN [st |-> "error", data |-> << >>, rest |-> << >>]
  ELSE IF otherWaiting THEN [st |-> "error", data |-> << >>, rest |-> buf]
  ELSE [st |-> "wait", data |-> << >>, rest |-> buf]

(***************************************************************************)
(* The torrent metadata the coordinator verifies against: the content of   *)
(* each piece and its SHA-1.  SHA-1 is modelled collision free.            *)
(***************************************************************************)
SHA1(b) == <<"sha1", b>>

PieceContent(i) == <<i + 1, i + 1>>

PieceHash(i) == SHA1(PieceContent(i))

(***************************************************************************)
(* State.                                                                  *)
(*   sess     the PeerConnection objects created so far, by identity       *)
(*   peers    PeerManager.peers, a dict in insertion order                 *)
(*   lock     PeerManager.lock: 0 when free, else the task holding it      *)
(*   task     each caller task: its position and its local variables       *)
(*   reported the pieces start_download has reported as downloaded         *)
(*   calls    the number of operations started so far                      *)
(***************************************************************************)
VARIABLES sess, peers, lock, task, reported, calls, input, output, tracker

\* The state of the codec, of the metadata loader and of the tracker client.
dataVars == <<input, output, tracker>>

\* The state of the peer layer.
peerVars == <<sess, peers, lock, task, reported, calls>>

vars == <<sess, peers, lock, task, reported, calls, input, output, tracker>>

NoRet == [st |-> "none", sess |-> 0, data |-> << >>]

\* A PeerConnection that has not been constructed.
NoSession ==
  [made |-> FALSE, addr |-> 0,
   writer |-> "none", connected |-> FALSE,
   am_choking |-> TRUE, am_interested |-> FALSE,
   peer_choking |-> TRUE, peer_interested |-> FALSE,
   pieces_have |-> {},
   inbuf |-> << >>, eof |-> FALSE, hs_out |-> FALSE, requests |-> 0,
   handshaken |-> FALSE, handed |-> FALSE,
   peer_hs |-> FALSE, peer_msgs |-> 0]

\* PeerConnection.__init__
NewSession(a) == [NoSession EXCEPT !.made = TRUE, !.addr = a]

IdleTask ==
  [pc |-> "idle", op |-> "none", addr |-> 0, piece |-> 0, begin |-> 0,
   peer |-> 0, ret |-> NoRet, resp |-> << >>, length |-> 0, message_id |-> 0,
   got_piece |-> 0, got_offset |-> 0, k |-> 0,
   addrs |-> << >>, n |-> 0, connected_peers |-> << >>]

\* No value has been given to the codec, to the loader or to the tracker client.
NoInput == [kind |-> "none"]

NoResult == [fn |-> "none"]

\* Tracker.__init__: no peers and the default intervals.
NewTracker ==
  LET Number(n) == [t |-> "int", n |-> n, b |-> << >>, items |-> << >>]
  IN  [peers |-> << >>, interval |-> Number(DEFAULT_INTERVAL),
       min_interval |-> Number(DEFAULT_MIN_INTERVAL)]

\* The codec, the loader and the tracker client have not been used.
DataIdle ==
  /\ input = NoInput
  /\ output = NoResult
  /\ tracker = NewTracker

Init ==
  /\ sess = [s \in SessIds |-> NoSession]
  /\ peers = << >>
  /\ lock = 0
  /\ task = [t \in Tasks |-> IdleTask]
  /\ reported = {}
  /\ calls = 0
  /\ DataIdle


(***************************************************************************)
(* PeerManager.peers: a Python dict keyed by (ip, port), which keeps       *)
(* insertion order; assigning to a present key keeps the key's position.   *)
(***************************************************************************)
DictHas(d, a) == \E i \in 1..Len(d) : d[i].addr = a

DictGet(d, a) == d[CHOOSE i \in 1..Len(d) : d[i].addr = a].sess

DictSet(d, a, s) ==
  IF DictHas(d, a)
  THEN [i \in 1..Len(d) |-> IF d[i].addr = a THEN [addr |-> a, sess |-> s] ELSE d[i]]
  ELSE Append(d, [addr |-> a, sess |-> s])

\* The identity of the next PeerConnection object.
FreshId == CHOOSE s \in SessIds : ~sess[s].made /\ \A r \in SessIds : r < s => sess[r].made

Done(l, st, s, data) == [l EXCEPT !.pc = "done", !.ret = [st |-> st, sess |-> s, data |-> data]]

\* StreamWriter.write of the handshake and of a request message: the bytes
\* reach the wire only through an open transport; a closed one drops them.
WriteHandshake(p) == IF p.writer = "open" THEN [p EXCEPT !.hs_out = TRUE] ELSE p

WriteRequest(p) == IF p.writer = "open" THEN [p EXCEPT !.requests = @ + 1] ELSE p

(***************************************************************************)
(* PeerConnection.perform_handshake.                                       *)
(***************************************************************************)
\* The test without its comparison of the info_hash.
HandshakeAcceptsAnyHash(response, info_hash) ==
  /\ Len(response) = HANDSHAKE_LEN
  /\ Slice(response, 1, 20) = PSTR

\* The test of the 68-byte response.
HandshakeAccepts(response, info_hash) ==
  /\ Len(response) = HANDSHAKE_LEN
  /\ Slice(response, 1, 20) = PSTR
  /\ Slice(response, 28, 48) = info_hash

\* The guard shutting out a session on which a request has been made.
UsableOnce(p) == p.connected /\ p.writer # "none" /\ p.requests = 0

\* The guard of perform_handshake, send_interested and request_piece.
Usable(p) == p.connected /\ p.writer # "none"

(***************************************************************************)
(* PeerManager.add_peer.                                                   *)
(***************************************************************************)
\* The callers are interchangeable, and so are the addresses: a call is made
\* by the first task that is free (one that has made no call yet, or whose
\* last call has returned), and a new address is the first unused one.
\* A task that is in no call: it has made none, or its last one has returned
\* (the loop over the peers has returned when the handler has answered).
AtRest(l) ==
  /\ l.pc \in {"idle", "done"}
  /\ l.op = "connect_peers" => l.ret.st = "200"

Free(t) ==
  /\ AtRest(task[t])
  /\ \A u \in Tasks : u < t => ~AtRest(task[u])
  /\ calls < MaxCalls

Known(a) == \E s \in SessIds : sess[s].made /\ sess[s].addr = a

Nameable(a) == \A b \in Addrs : b < a => Known(b)

\* The membership test with a key that is never in the dict (the ip alone
\* instead of the pair).
AlreadyRegisteredByIp(a) == DictHas(peers, 0 - a)

\* if (ip, port) in self.peers
AlreadyRegistered(a) == DictHas(peers, a)

\* The condition without the result of the handshake.
MayRegisterOnConnect(connect_ok, handshake_ok) == connect_ok

\* if await peer.connect() and await peer.perform_handshake()
MayRegister(connect_ok, handshake_ok) == connect_ok /\ handshake_ok

\* async with self.lock: self.peers[(ip, port)] = peer; return peer
Register(t, l, S) ==
  /\ peers' = DictSet(peers, l.addr, l.peer)
  /\ sess' = [S EXCEPT ![l.peer].handed = TRUE]
  /\ task' = [task EXCEPT ![t] = Done(l, "sess", l.peer, << >>)]
  /\ UNCHANGED lock

\* The call, up to the await of open_connection.
AddPeerCall(t, a) ==
  /\ Free(t)
  /\ Nameable(a)
  /\ calls' = calls + 1
  /\ IF AlreadyRegistered(a)
     THEN /\ task' = [task EXCEPT ![t] =
                 Done([IdleTask EXCEPT !.op = "add_peer", !.addr = a],
                      "sess", DictGet(peers, a), << >>)]
          /\ UNCHANGED <<sess, peers, lock, reported>>
     ELSE /\ \E s \in SessIds : ~sess[s].made
          /\ sess' = [sess EXCEPT ![FreshId] = NewSession(a)]
          /\ task' = [task EXCEPT ![t] =
                 [IdleTask EXCEPT !.pc = "ap_connect", !.op = "add_peer",
                                  !.addr = a, !.peer = FreshId]]
          /\ UNCHANGED <<peers, lock, reported>>
  /\ UNCHANGED dataVars

\* open_connection succeeded: connect returns True and perform_handshake
\* writes its handshake and awaits the 68-byte response.
ConnectOk(t) ==
  /\ task[t].pc = "ap_connect"
  /\ LET s == task[t].peer
         p == [sess[s] EXCEPT !.writer = "open", !.connected = TRUE]
     IN  /\ sess' = [sess EXCEPT ![s] = WriteHandshake(p)]
         /\ task' = [task EXCEPT ![t].pc = "hs_read"]
  /\ UNCHANGED <<peers, lock, reported, calls>>
  /\ UNCHANGED dataVars

\* open_connection raised: connect returns False and add_peer returns None.
ConnectFail(t) ==
  /\ task[t].pc = "ap_connect"
  /\ task' = [task EXCEPT ![t] = Done(task[t], "none", 0, << >>)]
  /\ UNCHANGED <<sess, peers, lock, reported, calls>>
  /\ UNCHANGED dataVars

\* The 68 bytes arrived, or the stream ended: perform_handshake returns, and
\* add_peer registers the session under the lock or returns None.
HandshakeRead(t) ==
  /\ task[t].pc = "hs_read"
  /\ LET s  == task[t].peer
         r  == ReadExactly(sess[s].inbuf, HANDSHAKE_LEN, sess[s].eof, FALSE)
         ok == r.st = "ok" /\ HandshakeAccepts(r.data, InfoHash)
         S  == [sess EXCEPT ![s].inbuf = r.rest, ![s].handshaken = ok]
         l  == [task[t] EXCEPT !.resp = r.data]
     IN  /\ r.st # "wait"
         /\ IF MayRegister(TRUE, ok)
            THEN IF lock = 0
                 THEN Register(t, l, S)
                 ELSE /\ task' = [task EXCEPT ![t] = [l EXCEPT !.pc = "ap_lock"]]
                      /\ sess' = S
                      /\ UNCHANGED <<peers, lock>>
            ELSE /\ task' = [task EXCEPT ![t] = Done(l, "none", 0, << >>)]
                 /\ sess' = S
                 /\ UNCHANGED <<peers, lock>>
  /\ UNCHANGED <<reported, calls>>
  /\ UNCHANGED dataVars

\* The lock was held at the registration and is free now.
AddPeerLocked(t) ==
  /\ task[t].pc = "ap_lock"
  /\ lock = 0
  /\ Register(t, task[t], sess)
  /\ UNCHANGED <<reported, calls>>
  /\ UNCHANGED dataVars

(***************************************************************************)
(* The loop of main.py over the peers the tracker returned, on the         *)
(* PeerManager the handler has just created:                               *)
(*   peer_manager = PeerManager(current_torrent.info_hash, peer_id)        *)
(*   for peer in peers:                                                    *)
(*     try:                                                                *)
(*       if peer.ip != HOST or peer.port != PORT:                          *)
(*         peer_conn = await peer_manager.add_peer(peer.ip, peer.port)     *)
(*         if peer_conn: connected_peers.append(...)                       *)
(*     except Exception: print(...)                                        *)
(* The locals: addrs the list, n the position of the peer add_peer is      *)
(* working on, connected_peers the result.                                 *)
(***************************************************************************)
\* (HOST, PORT), the address of the client itself
SelfAddr == 0

\* The lists of peers a tracker returns.
PeerLists ==
  UNION {[1..len -> Addrs \cup {SelfAddr}] : len \in 1..MaxPeerList}

\* The first position after `from` whose peer is not the client itself, or
\* the position after the last.
RECURSIVE FirstOther(_, _)
FirstOther(addrs, from) ==
  IF from > Len(addrs) THEN from
  ELSE IF addrs[from] # SelfAddr THEN from
  ELSE FirstOther(addrs, from + 1)

\* A loop that a failed add_peer ends.
NextPeerUnlessFailed(l) ==
  IF l.n > 0 /\ l.ret.st = "none"
  THEN Len(l.addrs) + 1
  ELSE FirstOther(l.addrs, l.n + 1)

\* The position of the next peer add_peer is called for, whatever add_peer
\* returned for the one before.
NextPeer(l) == FirstOther(l.addrs, l.n + 1)

\* if peer_conn: connected_peers.append(...)
AfterAddPeer(l) ==
  IF l.n > 0 /\ l.ret.st = "sess"
  THEN [l EXCEPT !.connected_peers = Append(@, l.addrs[l.n])]
  ELSE l

\* The loop from the peer after position l.n on, up to the await of
\* open_connection in add_peer, or to the return of an add_peer that found
\* the address registered, or to the end of the list.
LoopStep(t, l0) ==
  LET l == AfterAddPeer(l0)
      m == NextPeer(l)
  IN  IF m > Len(l.addrs)
      THEN /\ task' = [task EXCEPT ![t] = Done([l EXCEPT !.n = m], "200", 0, << >>)]
           /\ UNCHANGED <<sess, calls>>
      ELSE LET a == l.addrs[m]
           IN  /\ calls < MaxCalls
               /\ calls' = calls + 1
               /\ IF AlreadyRegistered(a)
                  THEN /\ task' = [task EXCEPT ![t] =
                              Done([l EXCEPT !.n = m, !.addr = a, !.peer = 0],
                                   "sess", DictGet(peers, a), << >>)]
                       /\ UNCHANGED sess
                  ELSE /\ \E s \in SessIds : ~sess[s].made
                       /\ sess' = [sess EXCEPT ![FreshId] = NewSession(a)]
                       /\ task' = [task EXCEPT ![t] =
                              [l EXCEPT !.pc = "ap_connect", !.n = m, !.addr = a,
                                        !.peer = FreshId, !.ret = NoRet, !.resp = << >>]]

\* The handler reaches the loop with the list addrs; the registry of its new
\* PeerManager is empty and no session exists.
ConnectPeersCall(t, addrs) ==
  /\ Free(t)
  /\ peers = << >>
  /\ \A s \in SessIds : ~sess[s].made
  /\ LoopStep(t, [IdleTask EXCEPT !.op = "connect_peers", !.addrs = addrs])
  /\ UNCHANGED <<peers, lock, reported>>
  /\ UNCHANGED dataVars

\* add_peer has returned to the loop.
ConnectPeersNext(t) ==
  /\ task[t].op = "connect_peers"
  /\ task[t].pc = "done"
  /\ task[t].ret.st \in {"sess", "none"}
  /\ LoopStep(t, task[t])
  /\ UNCHANGED <<peers, lock, reported>>
  /\ UNCHANGED dataVars

(***************************************************************************)
(* PeerConnection.connect, called by the holder of a session whose close() *)
(* has completed: connect looks at no field of the session, it awaits      *)
(* open_connection, and on success replaces reader and writer by those of  *)
(* the new connection and sets connected.                                  *)
(***************************************************************************)
ConnectCall(t, s) ==
  /\ Free(t)
  /\ sess[s].handed
  /\ sess[s].writer = "closed" /\ ~sess[s].connected
  /\ \A u \in Tasks : task[u].peer = s => task[u].pc = "done"
  /\ calls' = calls + 1
  /\ task' = [task EXCEPT ![t] =
         [IdleTask EXCEPT !.pc = "cn_connect", !.op = "connect", !.peer = s]]
  /\ UNCHANGED <<sess, peers, lock, reported>>
  /\ UNCHANGED dataVars

\* open_connection succeeded (True) or raised (False).
ConnectReturn(t, ok) ==
  /\ task[t].pc = "cn_connect"
  /\ LET s == task[t].peer
     IN  IF ok
         THEN /\ sess' = [sess EXCEPT ![s].writer = "open", ![s].connected = TRUE,
                                      ![s].inbuf = << >>, ![s].eof = FALSE,
                                      ![s].peer_hs = FALSE]
              /\ task' = [task EXCEPT ![t] = Done(task[t], "true", 0, << >>)]
         ELSE /\ sess' = sess
              /\ task' = [task EXCEPT ![t] = Done(task[t], "false", 0, << >>)]
  /\ UNCHANGED <<peers, lock, reported, calls>>
  /\ UNCHANGED dataVars

(***************************************************************************)
(* The remote peer.                                                        *)
(***************************************************************************)
\* A 20-byte value that differs from h in byte i only.
Differs(h, i) == [h EXCEPT ![i] = (h[i] + 1) % 256]

RemoteId == [i \in 1..20 |-> 82]

Handshake(len, pstr, hash) == <<len>> \o pstr \o Reserved \o hash \o RemoteId

\* The responses a peer gives: the right one, one whose info_hash or protocol
\* string differs in its first or its last byte, one whose length byte is not
\* 19, and one that stops after 48 bytes.
AllHandshakeKinds == {"good", "hash_first", "hash_last", "pstr_first", "pstr_last", "len", "short"}

\* The responses tried together with the other operations.
HandshakeKinds == {"good", "hash_last", "short"}

HandshakeBytes(kind) ==
  CASE kind = "good"       -> Handshake(PSTRLEN, PSTR, InfoHash)
    [] kind = "hash_first" -> Handshake(PSTRLEN, PSTR, Differs(InfoHash, 1))
    [] kind = "hash_last"  -> Handshake(PSTRLEN, PSTR, Differs(InfoHash, 20))
    [] kind = "pstr_first" -> Handshake(PSTRLEN, Differs(PSTR, 1), InfoHash)
    [] kind = "pstr_last"  -> Handshake(PSTRLEN, Differs(PSTR, 19), InfoHash)
    [] kind = "len"        -> Handshake(0, PSTR, InfoHash)
    [] kind = "short"      -> SubSeq(Handshake(PSTRLEN, PSTR, InfoHash), 1, 48)

RpPcs == {"rp_len", "rp_id", "rp_piece", "rp_offset", "rp_data"}

\* A task is suspended in a read of session s.
Reading(s) == \E t \in Tasks : task[t].peer = s /\ task[t].pc \in RpPcs \cup {"hs_read"}

\* A session some caller still holds: one a call is working on, or one that
\* add_peer returned.  What the peer does on any other connection has no
\* observer.
Held(s) ==
  \/ sess[s].handed
  \/ \E t \in Tasks : task[t].peer = s /\ task[t].pc # "done"

\* The peer answers the handshake.
PeerHandshake(s, kind) ==
  /\ Held(s)
  /\ sess[s].writer = "open"
  /\ ~sess[s].eof
  /\ ~sess[s].peer_hs
  /\ sess' = [sess EXCEPT ![s].inbuf = @ \o HandshakeBytes(kind), ![s].peer_hs = TRUE]
  /\ UNCHANGED <<peers, lock, task, reported, calls>>
  /\ UNCHANGED dataVars

\* The peer closes its side, or the connection is lost.
PeerEOF(s) ==
  /\ Reading(s)
  /\ sess[s].writer = "open"
  /\ ~sess[s].eof
  /\ sess' = [sess EXCEPT ![s].eof = TRUE]
  /\ UNCHANGED <<peers, lock, task, reported, calls>>
  /\ UNCHANGED dataVars

\* Length-prefixed messages as the peer writes them.
PieceMsg(i, b, data) == Pack32(9 + Len(data)) \o <<MSG_PIECE>> \o Pack32(i) \o Pack32(b) \o data

KeepAlive == Pack32(0)

Unchoke == Pack32(1) \o <<1>>

\* The data of a whole block, BLOCK_LEN bytes.
FullBlock == [k \in 1..BLOCK_LEN |-> k % 251]

\* have: the peer announces one piece.
Have(i) == Pack32(5) \o <<4>> \o Pack32(i)

\* 2^n
RECURSIVE Pow2(_)
Pow2(n) == IF n = 0 THEN 1 ELSE 2 * Pow2(n - 1)

\* The b-th byte (from 0) of a bitfield for the pieces have: piece i is bit
\* 7 - i % 8 of byte i \div 8, the high bit first.
RECURSIVE BitfieldByte(_, _)
BitfieldByte(have, b) ==
  IF have = {} THEN 0
  ELSE LET i == CHOOSE x \in have : TRUE
       IN  (IF i \div 8 = b THEN Pow2(7 - (i % 8)) ELSE 0) + BitfieldByte(have \ {i}, b)

\* bitfield: the peer announces the set of pieces it has.
Bitfield(have) ==
  LET n == (NumPieces + 7) \div 8
  IN  Pack32(1 + n) \o <<5>> \o [b \in 1..n |-> BitfieldByte(have, b - 1)]

\* What the peer may send after its handshake: the content of piece 0 as a
\* block at offset 0 of any piece, the same at offset 1, a piece message
\* without data, a keep-alive, an unchoke, a have and a bitfield, and the
\* content of piece 0 with its last byte altered.
PeerMessages ==
  {PieceMsg(i, 0, PieceContent(0)) : i \in Pieces}
    \cup {PieceMsg(0, 1, PieceContent(0)), PieceMsg(0, 0, << >>), KeepAlive, Unchoke}
    \cup {Have(1), Bitfield({1})}
    \cup {PieceMsg(0, 0, Differs(PieceContent(0), Len(PieceContent(0))))}

RECURSIVE SumMsgs(_)
SumMsgs(S) == IF S = {} THEN 0
              ELSE LET s == CHOOSE x \in S : TRUE IN sess[s].peer_msgs + SumMsgs(S \ {s})

PeerMessage(s, m) ==
  /\ sess[s].handed
  /\ sess[s].writer = "open"
  /\ ~sess[s].eof
  /\ SumMsgs(SessIds) < MaxPeerMsgs
  /\ sess' = [sess EXCEPT ![s].inbuf = @ \o m, ![s].peer_msgs = @ + 1]
  /\ UNCHANGED <<peers, lock, task, reported, calls>>
  /\ UNCHANGED dataVars

(***************************************************************************)
(* PeerConnection.request_piece.                                           *)
(***************************************************************************)
\* Another task is suspended in a read of the same session.
OtherWaiting(t, s) ==
  \E u \in Tasks \ {t} : task[u].peer = s /\ task[u].pc \in RpPcs \cup {"hs_read"}

\* if message_id == 7
IsPieceMessage(message_id) == message_id = MSG_PIECE

\* The data returned without its last byte.
PieceResultShort(l, data) == Done(l, "data", 0, Slice(data, 0, Len(data) - 1))

\* The value request_piece returns for a piece message.
PieceResult(l, data) == Done(l, "data", 0, data)

\* The reads of request_piece from position l.pc on, up to the first read
\* that has to wait: the locals after them and what is left of the buffer.
RECURSIVE RequestRead(_, _, _, _)
RequestRead(l, buf, eof, ow) ==
  LET n == CASE l.pc = "rp_len"    -> 4
             [] l.pc = "rp_id"     -> 1
             [] l.pc = "rp_piece"  -> 4
             [] l.pc = "rp_offset" -> 4
             [] l.pc = "rp_data"   -> l.length - 9
      r == ReadExactly(buf, n, eof, ow)
  IN  IF r.st = "wait" THEN [l |-> l, buf |-> buf]
      ELSE IF r.st = "error" THEN [l |-> Done(l, "none", 0, << >>), buf |-> r.rest]
      ELSE CASE l.pc = "rp_len" ->
                  IF Unpack32(r.data) = 0
                  THEN [l |-> Done(l, "none", 0, << >>), buf |-> r.rest]
                  ELSE RequestRead([l EXCEPT !.pc = "rp_id", !.length = Unpack32(r.data)],
                                   r.rest, eof, ow)
             [] l.pc = "rp_id" ->
                  IF IsPieceMessage(r.data[1])
                  THEN RequestRead([l EXCEPT !.pc = "rp_piece", !.message_id = r.data[1]],
                                   r.rest, eof, ow)
                  ELSE [l |-> Done([l EXCEPT !.message_id = r.data[1]], "none", 0, << >>),
                        buf |-> r.rest]
             [] l.pc = "rp_piece" ->
                  RequestRead([l EXCEPT !.pc = "rp_offset", !.got_piece = Unpack32(r.data)],
                              r.rest, eof, ow)
             [] l.pc = "rp_offset" ->
                  RequestRead([l EXCEPT !.pc = "rp_data", !.got_offset = Unpack32(r.data)],
                              r.rest, eof, ow)
             [] l.pc = "rp_data" ->
                  [l |-> PieceResult(l, r.data), buf |-> r.rest]

\* request_piece(piece_index, block) on session p by a task with locals l:
\* the guard, the request written, and the reads that need no waiting.
RequestPiece(l, p, ow) ==
  IF ~Usable(p)
  THEN [l |-> Done(l, "none", 0, << >>), p |-> p]
  ELSE LET q == WriteRequest(p)
           r == RequestRead([l EXCEPT !.pc = "rp_len"], q.inbuf, q.eof, ow)
       IN  [l |-> r.l, p |-> [q EXCEPT !.inbuf = r.buf]]

(***************************************************************************)
(* start_download of main.py, after get_peer_for_piece returned a session: *)
(* the first block of the piece is requested and the outcome reported.     *)
(***************************************************************************)
\* if data: ... 'Successfully downloaded piece'
Truthy(data) == data # << >>

\* The handler's answer once request_piece has returned l.ret.
Report(l) ==
  IF l.ret.st = "data" /\ Truthy(l.ret.data)
  THEN Done(l, "200", l.peer, l.ret.data)
  ELSE Done(l, "500", l.peer, << >>)

\* The pieces reported as downloaded, with the bytes they were reported for.
Reported(l) ==
  IF l.pc = "done" /\ l.ret.st = "200"
  THEN {[piece |-> l.piece, data |-> l.ret.data]}
  ELSE {}

\* What a task does when its request_piece has come to l: the handler goes on
\* to its report, a direct caller has its result.
Finish(l) == IF l.op = "start_download" /\ l.pc = "done" THEN Report(l) ELSE l

\* A caller that holds session s calls request_piece on it.
RequestPieceCall(t, s, i) ==
  /\ Free(t)
  /\ sess[s].handed
  /\ LET l == [IdleTask EXCEPT !.op = "request_piece", !.peer = s, !.piece = i, !.begin = 0]
         r == RequestPiece(l, sess[s], OtherWaiting(t, s))
     IN  /\ task' = [task EXCEPT ![t] = r.l]
         /\ sess' = [sess EXCEPT ![s] = r.p]
  /\ calls' = calls + 1
  /\ UNCHANGED <<peers, lock, reported>>
  /\ UNCHANGED dataVars

\* Bytes the suspended read waits for have arrived, or the stream has ended.
RequestPieceResume(t) ==
  /\ task[t].pc \in RpPcs
  /\ LET s == task[t].peer
         r == RequestRead(task[t], sess[s].inbuf, sess[s].eof, FALSE)
         l == Finish(r.l)
     IN  /\ r.l # task[t]
         /\ task' = [task EXCEPT ![t] = l]
         /\ sess' = [sess EXCEPT ![s].inbuf = r.buf]
         /\ reported' = reported \cup Reported(l)
  /\ UNCHANGED <<peers, lock, calls>>
  /\ UNCHANGED dataVars

\* The offsets of the blocks the handler has requested when it reports: the
\* one of BlockRequest(piece_index=piece_index, offset=0).
RequestedOffsets(l) == {l.begin}

\* info[b'piece length'] of the torrent, which the handler does not read: a
\* piece of one byte, of one block, of one block and a byte, of three blocks.
PieceLengths == {1, BLOCK_LEN, BLOCK_LEN + 1, 3 * BLOCK_LEN}

(***************************************************************************)
(* PeerManager.get_peer_for_piece, alone and as start_download calls it.   *)
(***************************************************************************)
\* The loop returning the last session that has the piece, not the first.
GetPeerForPieceLast(d, S, i) ==
  LET hits == {k \in 1..Len(d) : i \in S[d[k].sess].pieces_have}
  IN  IF hits = {} THEN 0
      ELSE d[CHOOSE k \in hits : \A j \in hits : k >= j].sess

\* for peer in self.peers.values(): if piece_index in peer.pieces_have
GetPeerForPiece(d, S, i) ==
  LET hits == {k \in 1..Len(d) : i \in S[d[k].sess].pieces_have}
  IN  IF hits = {} THEN 0
      ELSE d[CHOOSE k \in hits : \A j \in hits : k <= j].sess

\* The lookup under the lock, and for start_download what follows it.
Lookup(t, l) ==
  LET s == GetPeerForPiece(peers, sess, l.piece)
  IN  IF l.op = "get_peer_for_piece"
      THEN /\ task' = [task EXCEPT ![t] =
                  IF s = 0 THEN Done(l, "none", 0, << >>) ELSE Done(l, "sess", s, << >>)]
           /\ UNCHANGED <<sess, reported>>
      ELSE IF s = 0
      THEN /\ task' = [task EXCEPT ![t] = Done(l, "404", 0, << >>)]
           /\ UNCHANGED <<sess, reported>>
      ELSE LET r  == RequestPiece([l EXCEPT !.peer = s, !.begin = 0], sess[s], OtherWaiting(t, s))
               l2 == Finish(r.l)
           IN  /\ task' = [task EXCEPT ![t] = l2]
               /\ sess' = [sess EXCEPT ![s] = r.p]
               /\ reported' = reported \cup Reported(l2)

LookupCall(t, op, i) ==
  /\ Free(t)
  /\ calls' = calls + 1
  /\ LET l == [IdleTask EXCEPT !.op = op, !.piece = i]
     IN  IF lock = 0
         THEN Lookup(t, l)
         ELSE /\ task' = [task EXCEPT ![t] = [l EXCEPT !.pc = "gp_lock"]]
              /\ UNCHANGED <<sess, reported>>
  /\ UNCHANGED <<peers, lock>>
  /\ UNCHANGED dataVars

\* peer_manager.get_peer_for_piece(piece_index)
GetPeerForPieceCall(t, i) == LookupCall(t, "get_peer_for_piece", i)

\* POST /api/download/start with piece_index i
StartDownload(t, i) == LookupCall(t, "start_download", i)

\* The lock was held at the lookup and is free now.
LookupLocked(t) ==
  /\ task[t].pc = "gp_lock"
  /\ lock = 0
  /\ Lookup(t, task[t])
  /\ UNCHANGED <<peers, lock, calls>>
  /\ UNCHANGED dataVars

\* pieces_have is a public attribute that no method of PeerConnection or
\* PeerManager assigns: only the holder of a session can fill it.
SetPiecesHave(s, have) ==
  /\ sess[s].handed
  /\ sess[s].pieces_have = {}
  /\ have # {}
  /\ sess' = [sess EXCEPT ![s].pieces_have = have]
  /\ UNCHANGED <<peers, lock, task, reported, calls>>
  /\ UNCHANGED dataVars

(***************************************************************************)
(* PeerConnection.close and PeerManager.close_all.                         *)
(***************************************************************************)
\* close() up to its await of wait_closed: [p, suspended].  A writer that is
\* already closed has nothing to wait for.
CloseBegin(p) ==
  IF p.writer = "none" THEN [p |-> p, suspended |-> FALSE]
  ELSE IF p.writer = "open"
       THEN [p |-> [p EXCEPT !.writer = "closed"], suspended |-> TRUE]
       ELSE [p |-> [p EXCEPT !.connected = FALSE], suspended |-> FALSE]

\* close() after a wait_closed that left the reader as it was.
CloseEndReaderOpen(p) == [p EXCEPT !.connected = FALSE]

\* close() returning after wait_closed without its assignment to connected.
CloseEndStillConnected(p) == [p EXCEPT !.eof = TRUE]

\* close() after wait_closed: the transport is gone, the reader is at its end.
CloseEnd(p) == [p EXCEPT !.connected = FALSE, !.eof = TRUE]

\* The loop of close_all from the k-th session on, up to the first close that
\* has to wait: [k, S, fin].
RECURSIVE CloseFrom(_, _, _)
CloseFrom(d, S, k) ==
  IF k > Len(d) THEN [k |-> k, S |-> S, fin |-> TRUE]
  ELSE LET c  == CloseBegin(S[d[k].sess])
           S2 == [S EXCEPT ![d[k].sess] = c.p]
       IN  IF c.suspended THEN [k |-> k, S |-> S2, fin |-> FALSE]
           ELSE CloseFrom(d, S2, k + 1)

\* close_all holding the lock, from the k-th session on with the sessions S.
CloseAllRun(t, l, S, k) ==
  LET r == CloseFrom(peers, S, k)
  IN  /\ sess' = r.S
      /\ IF r.fin
         THEN /\ peers' = << >>
              /\ lock' = 0
              /\ task' = [task EXCEPT ![t] = Done(l, "none", 0, << >>)]
         ELSE /\ peers' = peers
              /\ lock' = t
              /\ task' = [task EXCEPT ![t] = [l EXCEPT !.pc = "ca_wait", !.k = r.k]]

CloseAllCall(t) ==
  /\ Free(t)
  /\ calls' = calls + 1
  /\ LET l == [IdleTask EXCEPT !.op = "close_all"]
     IN  IF lock = 0
         THEN CloseAllRun(t, l, sess, 1)
         ELSE /\ task' = [task EXCEPT ![t] = [l EXCEPT !.pc = "ca_lock"]]
              /\ UNCHANGED <<sess, peers, lock>>
  /\ UNCHANGED reported
  /\ UNCHANGED dataVars

\* The lock was held at the call and is free now.
CloseAllLocked(t) ==
  /\ task[t].pc = "ca_lock"
  /\ lock = 0
  /\ CloseAllRun(t, task[t], sess, 1)
  /\ UNCHANGED <<reported, calls>>
  /\ UNCHANGED dataVars

\* wait_closed of the k-th session returned.
CloseAllResume(t) ==
  /\ task[t].pc = "ca_wait"
  /\ LET k == task[t].k
         S == [sess EXCEPT ![peers[k].sess] = CloseEnd(@)]
     IN  CloseAllRun(t, task[t], S, k + 1)
  /\ UNCHANGED <<reported, calls>>
  /\ UNCHANGED dataVars

Next ==
  \/ \E t \in Tasks, a \in Addrs : AddPeerCall(t, a)
  \/ \E t \in Tasks : ConnectOk(t)
  \/ \E t \in Tasks : ConnectFail(t)
  \/ \E t \in Tasks : HandshakeRead(t)
  \/ \E t \in Tasks : AddPeerLocked(t)
  \/ \E s \in SessIds, k \in HandshakeKinds : PeerHandshake(s, k)
  \/ \E s \in SessIds : PeerEOF(s)
  \/ \E s \in SessIds, m \in PeerMessages : PeerMessage(s, m)
  \/ \E t \in Tasks, s \in SessIds, i \in Pieces : RequestPieceCall(t, s, i)
  \/ \E t \in Tasks : RequestPieceResume(t)
  \/ \E t \in Tasks, i \in Pieces : GetPeerForPieceCall(t, i)
  \/ \E t \in Tasks, i \in Pieces : StartDownload(t, i)
  \/ \E t \in Tasks : LookupLocked(t)
  \/ \E s \in SessIds, have \in {{i} : i \in Pieces} : SetPiecesHave(s, have)
  \/ \E t \in Tasks : CloseAllCall(t)
  \/ \E t \in Tasks : CloseAllLocked(t)
  \/ \E t \in Tasks : CloseAllResume(t)

Spec == Init /\ [][Next]_vars

(***************************************************************************)
(* add_peer alone, against every kind of handshake response.               *)
(***************************************************************************)
NextHandshake ==
  \/ \E t \in Tasks, a \in Addrs : AddPeerCall(t, a)
  \/ \E t \in Tasks : ConnectOk(t)
  \/ \E t \in Tasks : ConnectFail(t)
  \/ \E t \in Tasks : HandshakeRead(t)
  \/ \E s \in SessIds, k \in AllHandshakeKinds : PeerHandshake(s, k)
  \/ \E s \in SessIds : PeerEOF(s)

SpecHandshake == Init /\ [][NextHandshake]_vars

(***************************************************************************)
(* The operations that read or write the registry: add_peer and close_all. *)
(***************************************************************************)
NextRegistry ==
  \/ \E t \in Tasks, a \in Addrs : AddPeerCall(t, a)
  \/ \E t \in Tasks : ConnectOk(t)
  \/ \E t \in Tasks : ConnectFail(t)
  \/ \E t \in Tasks : HandshakeRead(t)
  \/ \E t \in Tasks : AddPeerLocked(t)
  \/ \E s \in SessIds, k \in HandshakeKinds : PeerHandshake(s, k)
  \/ \E s \in SessIds : PeerEOF(s)
  \/ \E t \in Tasks : CloseAllCall(t)
  \/ \E t \in Tasks : CloseAllLocked(t)
  \/ \E t \in Tasks : CloseAllResume(t)

SpecRegistry == Init /\ [][NextRegistry]_vars

(***************************************************************************)
(* The lookup of a peer for a piece, among sessions that add_peer          *)
(* registers, their holders fill and close_all removes.                    *)
(***************************************************************************)
NextLookup ==
  \/ \E t \in Tasks, a \in Addrs : AddPeerCall(t, a)
  \/ \E t \in Tasks : ConnectOk(t)
  \/ \E t \in Tasks : HandshakeRead(t)
  \/ \E t \in Tasks : AddPeerLocked(t)
  \/ \E s \in SessIds : PeerHandshake(s, "good")
  \/ \E s \in SessIds, have \in {{i} : i \in Pieces} : SetPiecesHave(s, have)
  \/ \E t \in Tasks, i \in Pieces : GetPeerForPieceCall(t, i)
  \/ \E t \in Tasks : LookupLocked(t)
  \/ \E t \in Tasks : CloseAllCall(t)
  \/ \E t \in Tasks : CloseAllResume(t)

SpecLookup == Init /\ [][NextLookup]_vars

(***************************************************************************)
(* The life of a session: created, connected and registered by add_peer,   *)
(* closed by close_all, and connected again by its holder.                 *)
(***************************************************************************)
NextSession ==
  \/ \E t \in Tasks, a \in Addrs : AddPeerCall(t, a)
  \/ \E t \in Tasks : ConnectOk(t)
  \/ \E t \in Tasks : ConnectFail(t)
  \/ \E t \in Tasks : HandshakeRead(t)
  \/ \E t \in Tasks : AddPeerLocked(t)
  \/ \E s \in SessIds, k \in HandshakeKinds : PeerHandshake(s, k)
  \/ \E s \in SessIds : PeerEOF(s)
  \/ \E t \in Tasks : CloseAllCall(t)
  \/ \E t \in Tasks : CloseAllLocked(t)
  \/ \E t \in Tasks : CloseAllResume(t)
  \/ \E t \in Tasks, s \in SessIds : ConnectCall(t, s)
  \/ \E t \in Tasks, ok \in BOOLEAN : ConnectReturn(t, ok)

SpecSession == Init /\ [][NextSession]_vars

(***************************************************************************)
(* Block requests on a registered session, against a peer that sends       *)
(* messages or ends the stream, and close_all.  The first state is the one *)
(* in which task 1 has returned from add_peer for address 1 with session   *)
(* 1, whose peer answered the handshake with the right one.                *)
(***************************************************************************)
InitRequests ==
  /\ sess = [s \in SessIds |->
               IF s = 1
               THEN [NewSession(1) EXCEPT !.writer = "open", !.connected = TRUE,
                                          !.hs_out = TRUE, !.peer_hs = TRUE,
                                          !.handshaken = TRUE, !.handed = TRUE]
               ELSE NoSession]
  /\ peers = <<[addr |-> 1, sess |-> 1]>>
  /\ lock = 0
  /\ task = [t \in Tasks |->
               IF t = 1
               THEN Done([IdleTask EXCEPT !.op = "add_peer", !.addr = 1, !.peer = 1,
                                          !.resp = HandshakeBytes("good")],
                         "sess", 1, << >>)
               ELSE IdleTask]
  /\ reported = {}
  /\ calls = 1
  /\ DataIdle

NextRequests ==
  \/ \E s \in SessIds : PeerEOF(s)
  \/ \E s \in SessIds, m \in PeerMessages \cup {PieceMsg(0, 0, FullBlock)} :
        PeerMessage(s, m)
  \/ \E t \in Tasks, s \in SessIds, i \in Pieces : RequestPieceCall(t, s, i)
  \/ \E t \in Tasks : RequestPieceResume(t)
  \/ \E t \in Tasks : CloseAllCall(t)
  \/ \E t \in Tasks : CloseAllResume(t)

SpecRequests == InitRequests /\ [][NextRequests]_vars

(***************************************************************************)
(* close_all on a registry of two sessions, among request_piece on them    *)
(* and add_peer for their addresses, where wait_closed may raise.  The     *)
(* first state is the one in which add_peer has returned sessions 1 and 2  *)
(* for addresses 1 and 2; calls counts the operations started after it.    *)
(***************************************************************************)
\* A session add_peer has registered and returned.
Registered(a) ==
  [NewSession(a) EXCEPT !.writer = "open", !.connected = TRUE,
                        !.hs_out = TRUE, !.peer_hs = TRUE,
                        !.handshaken = TRUE, !.handed = TRUE]

InitClose ==
  /\ sess = [s \in SessIds |-> IF s \in {1, 2} THEN Registered(s) ELSE NoSession]
  /\ peers = <<[addr |-> 1, sess |-> 1], [addr |-> 2, sess |-> 2]>>
  /\ lock = 0
  /\ task = [t \in Tasks |-> IdleTask]
  /\ reported = {}
  /\ calls = 0
  /\ DataIdle

\* close() after a wait_closed that raised: the transport is gone and the
\* reader has ended, and connected keeps its value.
CloseRaised(p) == [p EXCEPT !.eof = TRUE]

\* wait_closed of the k-th session raised: the exception leaves close() and
\* close_all, and async with releases the lock.
CloseAllRaise(t) ==
  /\ task[t].pc = "ca_wait"
  /\ sess' = [sess EXCEPT ![peers[task[t].k].sess] = CloseRaised(@)]
  /\ lock' = 0
  /\ task' = [task EXCEPT ![t] = Done(task[t], "error", 0, << >>)]
  /\ UNCHANGED <<peers, reported, calls>>
  /\ UNCHANGED dataVars

NextClose ==
  \/ \E t \in Tasks, a \in Addrs : AlreadyRegistered(a) /\ AddPeerCall(t, a)
  \/ \E s \in SessIds : PeerEOF(s)
  \/ \E s \in SessIds, m \in {Unchoke, PieceMsg(0, 0, PieceContent(0))} : PeerMessage(s, m)
  \/ \E t \in Tasks, s \in SessIds : RequestPieceCall(t, s, 0)
  \/ \E t \in Tasks : RequestPieceResume(t)
  \/ \E t \in Tasks : CloseAllCall(t)
  \/ \E t \in Tasks : CloseAllLocked(t)
  \/ \E t \in Tasks : CloseAllResume(t)
  \/ \E t \in Tasks : CloseAllRaise(t)

SpecClose == InitClose /\ [][NextClose]_vars

\* RequestPieceResume(t) is enabled: the read task t is suspended in can
\* go on, with the bytes buffered or the end of the stream.
CanResume(t) ==
  /\ task[t].pc \in RpPcs
  /\ RequestRead(task[t], sess[task[t].peer].inbuf, sess[task[t].peer].eof, FALSE).l # task[t]

\* The event loop runs what is ready: a wait_closed that was begun comes to
\* its end, by returning or by raising, and a read that can go on does.  The
\* second condition is WF_vars(RequestPieceResume(t)) with its ENABLED
\* written as CanResume(t).
SpecCloseFair ==
  /\ SpecClose
  /\ \A t \in Tasks : WF_vars(CloseAllRaise(t) \/ CloseAllResume(t))
  /\ \A t \in Tasks :
       \/ []<>(~CanResume(t))
       \/ []<><<RequestPieceResume(t)>>_vars

(***************************************************************************)
(* One handler connecting to the peers of a tracker.                       *)
(***************************************************************************)
NextConnect ==
  \/ \E t \in Tasks, addrs \in PeerLists : ConnectPeersCall(t, addrs)
  \/ \E t \in Tasks : ConnectPeersNext(t)
  \/ \E t \in Tasks : ConnectOk(t)
  \/ \E t \in Tasks : ConnectFail(t)
  \/ \E t \in Tasks : HandshakeRead(t)
  \/ \E s \in SessIds, k \in HandshakeKinds : PeerHandshake(s, k)
  \/ \E s \in SessIds : PeerEOF(s)

SpecConnect == Init /\ [][NextConnect]_vars


(***************************************************************************)
(* backend/app/bencode.py.  Bytes are sequences of integers 0..255.  A     *)
(* Python value the codec handles is a record: t its type, n the integer,  *)
(* b the bytes, items the elements of a list or, for a dict, its keys and  *)
(* values alternating in insertion order.                                  *)
(***************************************************************************)
Lower == <<"a", "b", "c", "d", "e", "f", "g", "h", "i", "j", "k", "l", "m",
           "n", "o", "p", "q", "r", "s", "t", "u", "v", "w", "x", "y", "z">>

Digit == <<"0", "1", "2", "3", "4", "5", "6", "7", "8", "9">>

Upper == <<"A", "B", "C", "D", "E", "F", "G", "H", "I", "J", "K", "L", "M",
           "N", "O", "P", "Q", "R", "S", "T", "U", "V", "W", "X", "Y", "Z">>

\* ord(c) for the characters the inputs are written with.
Ord(c) ==
  IF \E k \in 1..26 : Lower[k] = c THEN 96 + (CHOOSE k \in 1..26 : Lower[k] = c)
  ELSE IF \E k \in 1..10 : Digit[k] = c THEN 47 + (CHOOSE k \in 1..10 : Digit[k] = c)
  ELSE IF \E k \in 1..26 : Upper[k] = c THEN 64 + (CHOOSE k \in 1..26 : Upper[k] = c)
  ELSE CASE c = " " -> 32
         [] c = "-" -> 45
         [] c = "." -> 46
         [] c = "/" -> 47
         [] c = ":" -> 58

\* The bytes literal written with the characters of s.
B(s) == [k \in 1..Len(s) |-> Ord(s[k])]

BInt(n) == [t |-> "int", n |-> n, b |-> << >>, items |-> << >>]

BBytes(b) == [t |-> "bytes", n |-> 0, b |-> b, items |-> << >>]

BList(items) == [t |-> "list", n |-> 0, b |-> << >>, items |-> items]

BDict(items) == [t |-> "dict", n |-> 0, b |-> << >>, items |-> items]

BNone == [t |-> "none", n |-> 0, b |-> << >>, items |-> << >>]

\* The keys of a dict, in insertion order.
Keys(d) == [k \in 1..(Len(d.items) \div 2) |-> d.items[2 * k - 1]]

\* key in d
HasKey(d, key) == \E k \in 1..Len(Keys(d)) : Keys(d)[k] = key

\* d[key]
Get(d, key) == d.items[2 * (CHOOSE k \in 1..Len(Keys(d)) : Keys(d)[k] = key)]

\* d[key] = value: a present key keeps its position.
DictAssign(d, key, value) ==
  IF HasKey(d, key)
  THEN [d EXCEPT !.items[2 * (CHOOSE k \in 1..Len(Keys(d)) : Keys(d)[k] = key)] = value]
  ELSE [d EXCEPT !.items = @ \o <<key, value>>]

\* a == b of Python: lists compare element by element, dicts as mappings.
RECURSIVE PyEq(_, _)
PyEq(x, y) ==
  /\ x.t = y.t
  /\ x.n = y.n
  /\ x.b = y.b
  /\ Len(x.items) = Len(y.items)
  /\ IF x.t = "dict"
     THEN \A k \in 1..Len(Keys(x)) :
            /\ HasKey(y, Keys(x)[k])
            /\ PyEq(x.items[2 * k], Get(y, Keys(x)[k]))
     ELSE \A k \in 1..Len(x.items) : PyEq(x.items[k], y.items[k])

\* a < b of two bytes objects: byte by byte, a proper prefix first.
BytesLess(a, b) ==
  \E j \in 1..Len(b) :
    /\ \A m \in 1..(j - 1) : m <= Len(a) /\ a[m] = b[m]
    /\ (j > Len(a) \/ a[j] < b[j])

\* str(n) of a non-negative integer, as bytes.
RECURSIVE DecDigits(_)
DecDigits(n) == IF n < 10 THEN <<48 + n>> ELSE DecDigits(n \div 10) \o <<48 + (n % 10)>>

\* str(obj) of an integer without its sign.
StrNoSign(n) == DecDigits(IF n < 0 THEN 0 - n ELSE n)

\* f"{n}".encode()
Str(n) == IF n < 0 THEN <<45>> \o DecDigits(0 - n) ELSE DecDigits(n)

\* int(digits) of a run of ASCII digits, by the loop result * 10 + int(char);
\* 0 for no digit.
RECURSIVE IntOf(_)
IntOf(ds) ==
  IF ds = << >> THEN 0
  ELSE IntOf(SubSeq(ds, 1, Len(ds) - 1)) * 10 + (ds[Len(ds)] - 48)

\* sorted(obj.items()): the pairs by ascending key.  The keys of a dict are
\* distinct, so the values are never compared.
RECURSIVE SortItems(_)
SortItems(items) ==
  IF items = << >> THEN << >>
  ELSE LET n == Len(items) \div 2
           m == CHOOSE k \in 1..n :
                  \A j \in 1..n : j # k => BytesLess(items[2 * k - 1].b, items[2 * j - 1].b)
       IN  <<items[2 * m - 1], items[2 * m]>>
             \o SortItems(SubSeq(items, 1, 2 * m - 2) \o SubSeq(items, 2 * m + 1, Len(items)))

\* The pairs as the dict holds them.
ItemsUnsorted(items) == items

\* for k, v in sorted(obj.items())
ItemsInOrder(items) == SortItems(items)

\* encode raises ValueError for a type other than int, str, bytes, list and
\* dict, and for a dict key that is not str or bytes, wherever it is nested.
RECURSIVE Encodable(_)
Encodable(v) ==
  /\ v.t \in {"int", "bytes", "list", "dict"}
  /\ \A k \in 1..Len(v.items) : Encodable(v.items[k])
  /\ v.t = "dict" => \A k \in 1..Len(Keys(v)) : Keys(v)[k].t = "bytes"

\* The bytes encode returns for an encodable value.
RECURSIVE EncodeBytes(_)
RECURSIVE EncodeAll(_)
EncodeBytes(v) ==
  CASE v.t = "int"   -> <<105>> \o Str(v.n) \o <<101>>
    [] v.t = "bytes" -> Str(Len(v.b)) \o <<58>> \o v.b
    [] v.t = "list"  -> <<108>> \o EncodeAll(v.items) \o <<101>>
    [] v.t = "dict"  -> <<100>> \o EncodeAll(ItemsInOrder(v.items)) \o <<101>>

\* b"".join(encode(item) for item in items)
EncodeAll(items) ==
  IF items = << >> THEN << >>
  ELSE EncodeBytes(Head(items)) \o EncodeAll(Tail(items))

\* encode(obj)
Encode(v) ==
  IF Encodable(v) THEN [st |-> "ok", b |-> EncodeBytes(v)]
  ELSE [st |-> "ValueError", b |-> << >>]

\* stream.read(n) at position pos of a BytesIO over data.
Read(data, pos, n) == SubSeq(data, pos + 1, IF pos + n < Len(data) THEN pos + n ELSE Len(data))

\* char.isdigit() of the result of read(1)
IsDigit(char) == char # << >> /\ char[1] \in 48..57

\* The number of digits the loop "while char.isdigit()" consumes from pos.
RECURSIVE DigitRun(_, _)
DigitRun(data, pos) ==
  IF IsDigit(Read(data, pos, 1)) THEN 1 + DigitRun(data, pos + 1) ELSE 0

\* What a decoding function does: it returns v or raises st, and leaves the
\* stream at pos.
Ret(v, pos) == [st |-> "ok", v |-> v, pos |-> pos]

Raise(st, pos) == [st |-> st, v |-> BNone, pos |-> pos]

\* decode_int, the stream after the "i".
DecodeInt(data, pos) ==
  LET first == Read(data, pos, 1)
      neg   == first = <<45>>
      from  == IF neg THEN pos + 1 ELSE pos
      k     == DigitRun(data, from)
      char  == Read(data, from + k, 1)
      num   == IntOf(SubSeq(data, from + 1, from + k))
  IN  IF char # <<101>>
      THEN Raise("BencodeDecodeError", from + k + Len(char))
      ELSE Ret(BInt(IF neg THEN 0 - num ELSE num), from + k + 1)

\* return stream.read(length)
ReadString(data, pos, length) ==
  Ret(BBytes(Read(data, pos, length)), pos + Len(Read(data, pos, length)))

\* decode_string, the stream at the first digit of the length.
DecodeString(data, pos) ==
  LET k    == DigitRun(data, pos)
      char == Read(data, pos + k, 1)
  IN  IF char # <<58>>
      THEN Raise("BencodeDecodeError", pos + k + Len(char))
      ELSE IF k = 0
      THEN Raise("ValueError", pos + 1)
      ELSE ReadString(data, pos + k + 1, IntOf(SubSeq(data, pos + 1, pos + k)))

\* The end of the stream taken for the end of a list or dict.
UnexpectedEndIsNone(char, pos) ==
  IF char = << >> THEN Ret(BNone, pos) ELSE Raise("BencodeDecodeError", pos + 1)

\* else: raise BencodeDecodeError(f"Unexpected token: {char}"), which is
\* also the branch taken at the end of the stream, where char is b"".
Unexpected(char, pos) == Raise("BencodeDecodeError", pos + Len(char))

\* decode, _decode_list and _decode_dict on the stream at pos; result is the
\* list or the dict built so far.
RECURSIVE Decode(_, _)
RECURSIVE DecodeList(_, _, _)
RECURSIVE DecodeDict(_, _, _)
Decode(data, pos) ==
  LET char == Read(data, pos, 1)
  IN  IF char = <<105>> THEN DecodeInt(data, pos + 1)
      ELSE IF IsDigit(char) THEN DecodeString(data, pos)
      ELSE IF char = <<108>> THEN DecodeList(data, pos + 1, BList(<< >>))
      ELSE IF char = <<100>> THEN DecodeDict(data, pos + 1, BDict(<< >>))
      ELSE IF char = <<101>> THEN Ret(BNone, pos + 1)
      ELSE Unexpected(char, pos)

DecodeList(data, pos, result) ==
  LET value == Decode(data, pos)
  IN  IF value.st # "ok" THEN value
      ELSE IF value.v = BNone THEN Ret(result, value.pos)
      ELSE DecodeList(data, value.pos, [result EXCEPT !.items = Append(@, value.v)])

DecodeDict(data, pos, result) ==
  LET key == Decode(data, pos)
  IN  IF key.st # "ok" THEN key
      ELSE IF key.v = BNone THEN Ret(result, key.pos)
      ELSE IF key.v.t # "bytes" THEN Raise("BencodeDecodeError", key.pos)
      ELSE LET value == Decode(data, key.pos)
           IN  IF value.st # "ok" THEN value
               ELSE DecodeDict(data, value.pos, DictAssign(result, key.v, value.v))

\* bdecode(data) of bytes: decode on a new BytesIO.
BDecode(data) == Decode(data, 0)

(***************************************************************************)
(* The values given to encode: integers, byte strings, lists and dicts of  *)
(* them, and those nested in lists and dicts again.  A dict is given in    *)
(* every insertion order of its keys.                                      *)
(***************************************************************************)
IntValues == {-10, -1, 0, 9, 120}

ByteStrings == {<< >>, B(<<"a">>), B(<<"b">>), B(<<"a", "b">>), B(<<"e">>),
                B(<<"1", ":", "i">>), <<0, 255>>}

KeyStrings == {<< >>, B(<<"a">>), B(<<"a", "b">>), B(<<"b">>)}

Atoms == {BInt(n) : n \in IntValues} \cup {BBytes(b) : b \in ByteStrings}

DictAtoms == {BInt(-1), BInt(0), BBytes(<< >>), BBytes(B(<<"e">>))}

\* The sequences over S of length at most n.
SeqsUpTo(S, n) == UNION {[1..k -> S] : k \in 0..n}

\* The ways to insert at most n distinct keys.
KeySeqs(n) ==
  {ks \in SeqsUpTo(KeyStrings, n) : \A i, j \in 1..Len(ks) : i # j => ks[i] # ks[j]}

\* The dict built by inserting ks[1]: vs[1], ks[2]: vs[2], ...
RECURSIVE Pairs(_, _)
Pairs(ks, vs) ==
  IF ks = << >> THEN << >>
  ELSE <<BBytes(Head(ks)), Head(vs)>> \o Pairs(Tail(ks), Tail(vs))

DictOf(ks, vs) == BDict(Pairs(ks, vs))

ListsOver(S) == {BList(items) : items \in SeqsUpTo(S, MaxItems)}

DictsOver(S) ==
  UNION {{DictOf(ks, vs) : vs \in [1..Len(ks) -> S]} : ks \in KeySeqs(MaxItems)}

Flat == ListsOver(Atoms) \cup DictsOver(DictAtoms)

\* x inside a list or a dict, alone or beside an empty container.
Wraps(x) ==
  <<BList(<<x>>), BList(<<x, BList(<< >>)>>),
    DictOf(<<B(<<"a">>)>>, <<x>>),
    DictOf(<<B(<<"b">>), B(<<"a">>)>>, <<BDict(<< >>), x>>)>>

DeepWraps(x) == <<BList(<<x>>), DictOf(<<B(<<"b">>), << >>>>, <<x, BInt(0)>>)>>

\* x itself (w = 0), x wrapped once (d = 0), or wrapped twice.
Nest(x, w, d) ==
  IF w = 0 THEN x
  ELSE IF d = 0 THEN Wraps(x)[w]
  ELSE DeepWraps(Wraps(x)[w])[d]

\* The state of the peer layer when it is not used.
PeerLayerIdle ==
  /\ sess = [s \in SessIds |-> NoSession]
  /\ peers = << >>
  /\ lock = 0
  /\ task = [t \in Tasks |-> IdleTask]
  /\ reported = {}
  /\ calls = 0

(***************************************************************************)
(* encode applied to a value, and decode applied to the bytes encode       *)
(* returned.                                                               *)
(***************************************************************************)
InitCodec ==
  /\ PeerLayerIdle
  /\ \E x \in Atoms \cup Flat, w \in 0..4, d \in 0..2 :
        /\ w = 0 => d = 0
        /\ input = [kind |-> "value", v |-> Nest(x, w, d)]
  /\ output = NoResult
  /\ tracker = NewTracker

\* encode(v)
EncodeCall ==
  /\ input.kind = "value"
  /\ output.fn = "none"
  /\ output' = [fn |-> "encode", st |-> Encode(input.v).st, b |-> Encode(input.v).b]
  /\ UNCHANGED <<peerVars, input, tracker>>

\* decode(encode(v))
DecodeEncoded ==
  /\ output.fn = "encode"
  /\ output.st = "ok"
  /\ output' = [fn |-> "decode", of |-> output.b,
                st |-> BDecode(output.b).st, v |-> BDecode(output.b).v,
                pos |-> BDecode(output.b).pos]
  /\ UNCHANGED <<peerVars, input, tracker>>

NextCodec == EncodeCall \/ DecodeEncoded

SpecCodec == InitCodec /\ [][NextCodec]_vars

(***************************************************************************)
(* decode applied to bytes that no encode produced: integers written with  *)
(* any sign, digits and blanks, byte strings that declare any length, and  *)
(* documents in which the last key of one dict has no value.               *)
(***************************************************************************)
IntBodies == SeqsUpTo({"0", "1", "7", " ", "-"}, MaxText)

\* i<body>e
IntText(body) == <<105>> \o B(body) \o <<101>>

StringData == SeqsUpTo({"a", "e"}, MaxText)

\* <declared>:<data>
StringText(declared, data) == Str(declared) \o <<58>> \o B(data)

\* A dict that ends right after its last key: d<pairs><key>e
DictsWithoutLastValue ==
  {<<100>> \o pairs \o key \o <<101>> :
     pairs \in {<< >>, B(<<"1", ":", "a", "i", "1", "e">>), B(<<"1", ":", "a", "l", "e">>)},
     key \in {B(<<"3", ":", "f", "o", "o">>), B(<<"0", ":">>), B(<<"1", ":", "b">>)}}

\* Well-formed values beside it.
Siblings ==
  {B(<<"i", "1", "e">>), B(<<"1", ":", "z">>), B(<<"0", ":">>), B(<<"l", "e">>), B(<<"d", "e">>)}

\* x as an element of a list or as a value of a dict, with values before or
\* after it.
Contexts(x) ==
  {<<108>> \o x \o <<101>>}
    \cup {<<108>> \o s \o x \o <<101>> : s \in Siblings}
    \cup {<<108>> \o x \o s \o <<101>> : s \in Siblings}
    \cup {<<108>> \o x \o s \o r \o <<101>> : s, r \in Siblings}
    \cup {<<100>> \o B(<<"1", ":", "a">>) \o x \o <<101>>}
    \cup {<<100>> \o B(<<"1", ":", "a">>) \o x \o B(<<"1", ":", "b">>) \o s \o <<101>> :
            s \in Siblings}
    \cup {<<100>> \o B(<<"1", ":", "a">>) \o s \o B(<<"1", ":", "b">>) \o x \o <<101>> :
            s \in Siblings}

\* The input of decode and the form it was written in.
Text(form, data) == [kind |-> "bytes", form |-> form, data |-> data]

InitDecode ==
  /\ PeerLayerIdle
  /\ \/ \E body \in IntBodies : input = Text("integer", IntText(body))
     \/ \E declared \in 0..(MaxText + 1), data \in StringData :
           input = Text("string", StringText(declared, data))
     \/ \E x \in DictsWithoutLastValue : input = Text("dict", x)
     \/ \E x \in DictsWithoutLastValue : \E c \in Contexts(x) :
           input = Text("nested", c)
     \/ \E x \in DictsWithoutLastValue : \E c \in Contexts(x) : \E cc \in Contexts(c) :
           input = Text("nested", cc)
     \/ input = Text("surplus", <<101>>)
     \/ \E x \in DictsWithoutLastValue : input = Text("surplus", x \o <<101>>)
     \/ \E x \in DictsWithoutLastValue : \E c \in Contexts(x) :
           input = Text("surplus", c \o <<101>>)
  /\ output = NoResult
  /\ tracker = NewTracker

\* decode(data)
DecodeCall ==
  /\ input.kind = "bytes"
  /\ output.fn = "none"
  /\ output' = [fn |-> "decode", of |-> input.data,
                st |-> BDecode(input.data).st, v |-> BDecode(input.data).v,
                pos |-> BDecode(input.data).pos]
  /\ UNCHANGED <<peerVars, input, tracker>>

NextDecode == DecodeCall

SpecDecode == InitDecode /\ [][NextDecode]_vars

(***************************************************************************)
(* backend/app/torrent.py: Torrent(torrent_path), which reads the file and *)
(* runs _load_torrent_file and _parse_info.  Text is ASCII: a str is       *)
(* written as the bytes that encode it, and None as BNone.                 *)
(***************************************************************************)
KAnnounce == B(<<"a", "n", "n", "o", "u", "n", "c", "e">>)

KAnnounceList == B(<<"a", "n", "n", "o", "u", "n", "c", "e", "-", "l", "i", "s", "t">>)

KComment == B(<<"c", "o", "m", "m", "e", "n", "t">>)

KCreatedBy == B(<<"c", "r", "e", "a", "t", "e", "d", " ", "b", "y">>)

KCreationDate == B(<<"c", "r", "e", "a", "t", "i", "o", "n", " ", "d", "a", "t", "e">>)

KEncoding == B(<<"e", "n", "c", "o", "d", "i", "n", "g">>)

KInfo == B(<<"i", "n", "f", "o">>)

KName == B(<<"n", "a", "m", "e">>)

KPieceLength == B(<<"p", "i", "e", "c", "e", " ", "l", "e", "n", "g", "t", "h">>)

KPieces == B(<<"p", "i", "e", "c", "e", "s">>)

KPrivate == B(<<"p", "r", "i", "v", "a", "t", "e">>)

KFiles == B(<<"f", "i", "l", "e", "s">>)

KLength == B(<<"l", "e", "n", "g", "t", "h">>)

KPath == B(<<"p", "a", "t", "h">>)

KMd5sum == B(<<"m", "d", "5", "s", "u", "m">>)

\* key in d, d[key] and d.get(key, default) with a bytes key
Has(d, key) == HasKey(d, BBytes(key))

At(d, key) == Get(d, BBytes(key))

GetOr(d, key, default) == IF Has(d, key) THEN At(d, key) ELSE default

\* data.find(pat, start): the lowest index from start on at which pat
\* occurs, -1 if there is none.
Find(data, pat, start) ==
  LET hits == {i \in start..(Len(data) - Len(pat)) :
                 SubSeq(data, i + 1, i + Len(pat)) = pat}
  IN  IF hits = {} THEN 0 - 1
      ELSE CHOOSE i \in hits : \A j \in hits : i <= j

\* data[lo:hi] of Python: a negative index counts from the end, and both
\* are clipped to the data.
PySlice(data, lo, hi) ==
  LET n    == Len(data)
      Clip(i) == IF i < 0 THEN (IF i + n < 0 THEN 0 ELSE i + n)
                 ELSE IF i > n THEN n ELSE i
  IN  SubSeq(data, Clip(lo) + 1, Clip(hi))

\* data[data.find(b'd8:infod') : data.find(b'e', data.find(b'd8:infod') + 8) + 1]
InfoSpan(data) ==
  LET at == Find(data, B(<<"d", "8", ":", "i", "n", "f", "o", "d">>), 0)
  IN  PySlice(data, at, Find(data, <<101>>, at + 8) + 1)

\* [info[b'pieces'][i:i+20] for i in range(0, len(info[b'pieces']), 20)]
RECURSIVE Chunks(_)
Chunks(b) ==
  IF b = << >> THEN << >>
  ELSE <<PySlice(b, 0, 20)>> \o Chunks(PySlice(b, 20, Len(b)))

\* bool(x) of a decoded value
Bool(x) ==
  CASE x.t = "int" -> x.n # 0
    [] x.t = "bytes" -> x.b # << >>
    [] x.t \in {"list", "dict"} -> x.items # << >>
    [] x.t = "none" -> FALSE

\* os.path.join(*segments) of posixpath, for at least one segment.
RECURSIVE PathJoin(_, _)
PathJoin(path, rest) ==
  IF rest = << >> THEN path
  ELSE LET b == Head(rest)
       IN  IF b # << >> /\ b[1] = 47 THEN PathJoin(b, Tail(rest))
           ELSE IF path = << >> \/ path[Len(path)] = 47 THEN PathJoin(path \o b, Tail(rest))
           ELSE PathJoin(path \o <<47>> \o b, Tail(rest))

\* x.decode('utf-8') of a value that may not be bytes.
CanDecode(x) == x.t = "bytes"

\* What a step of the loader yields: a value, or the exception raised.
Ok(v) == [st |-> "ok", v |-> v]

Exc(st) == [st |-> st, v |-> BNone]

\* FileInfo(path=path, length=length, md5sum=md5sum) for one entry of files.
FileOf(file_info) ==
  IF file_info.t # "dict" THEN Exc("TypeError")
  ELSE IF ~Has(file_info, KPath) THEN Exc("KeyError")
  ELSE IF At(file_info, KPath).t # "list" THEN Exc("TypeError")
  ELSE IF \E k \in 1..Len(At(file_info, KPath).items) : ~CanDecode(At(file_info, KPath).items[k])
  THEN Exc("AttributeError")
  ELSE IF At(file_info, KPath).items = << >> THEN Exc("TypeError")
  ELSE IF ~Has(file_info, KLength) THEN Exc("KeyError")
  ELSE IF Has(file_info, KMd5sum) /\ ~CanDecode(At(file_info, KMd5sum)) THEN Exc("AttributeError")
  ELSE LET segs == [k \in 1..Len(At(file_info, KPath).items) |-> At(file_info, KPath).items[k].b]
       IN  Ok([path |-> PathJoin(Head(segs), Tail(segs)),
               length |-> At(file_info, KLength),
               md5sum |-> GetOr(file_info, KMd5sum, BNone)])

\* The branch of _parse_info by the shape of info: multi-file when info has
\* files and single-file otherwise.
IsMultiFile(info) == Has(info, KFiles)

\* Torrent._parse_info: the TorrentInfo, or the exception raised.
ParseInfo(info) ==
  IF info.t # "dict" THEN Exc("TypeError")
  ELSE IF ~Has(info, KName) THEN Exc("KeyError")
  ELSE IF ~CanDecode(At(info, KName)) THEN Exc("AttributeError")
  ELSE IF ~Has(info, KPieceLength) THEN Exc("KeyError")
  ELSE IF ~Has(info, KPieces) THEN Exc("KeyError")
  ELSE IF At(info, KPieces).t # "bytes" THEN Exc("TypeError")  \* len() of an int
  ELSE
    LET common == [name |-> At(info, KName).b,
                   piece_length |-> At(info, KPieceLength),
                   pieces |-> Chunks(At(info, KPieces).b),
                   private |-> Bool(GetOr(info, KPrivate, BInt(0))),
                   files |-> << >>, has_files |-> FALSE,
                   length |-> BNone, md5sum |-> BNone]
    IN  IF IsMultiFile(info)
        THEN IF At(info, KFiles).t # "list" THEN Exc("TypeError")
             ELSE IF \E k \in 1..Len(At(info, KFiles).items) : FileOf(At(info, KFiles).items[k]).st # "ok"
             THEN Exc(FileOf(At(info, KFiles).items[
                        CHOOSE k \in 1..Len(At(info, KFiles).items) :
                          /\ FileOf(At(info, KFiles).items[k]).st # "ok"
                          /\ \A j \in 1..(k - 1) : FileOf(At(info, KFiles).items[j]).st = "ok"]).st)
             ELSE Ok([common EXCEPT
                        !.files = [k \in 1..Len(At(info, KFiles).items) |->
                                     FileOf(At(info, KFiles).items[k]).v],
                        !.has_files = TRUE])
        ELSE IF ~Has(info, KLength) THEN Exc("KeyError")
        ELSE IF Has(info, KMd5sum) /\ ~CanDecode(At(info, KMd5sum)) THEN Exc("AttributeError")
        ELSE Ok([common EXCEPT !.length = At(info, KLength),
                               !.md5sum = GetOr(info, KMd5sum, BNone)])

\* [[url.decode('utf-8') for url in tier] for tier in decoded[b'announce-list']]
\* for a list of lists; TypeError stands for the TypeError or AttributeError
\* that another shape raises.
AnnounceList(decoded) ==
  IF ~Has(decoded, KAnnounceList) THEN Ok(<< >>)
  ELSE LET tiers == At(decoded, KAnnounceList)
       IN  IF /\ tiers.t = "list"
              /\ \A k \in 1..Len(tiers.items) :
                   /\ tiers.items[k].t = "list"
                   /\ \A j \in 1..Len(tiers.items[k].items) : CanDecode(tiers.items[k].items[j])
           THEN Ok([k \in 1..Len(tiers.items) |->
                      [j \in 1..Len(tiers.items[k].items) |-> tiers.items[k].items[j].b]])
           ELSE Exc("TypeError")

\* Torrent.__init__ on a file that exists and holds data: the object, or the
\* exception that leaves the caller without one.
LoadTorrentFile(data) ==
  LET d       == BDecode(data)
      decoded == d.v
  IN  IF d.st # "ok" THEN Exc("ValueError")
      ELSE IF decoded.t # "dict" THEN Exc("AttributeError")
      ELSE IF ~CanDecode(GetOr(decoded, KAnnounce, BBytes(<< >>))) THEN Exc("AttributeError")
      ELSE IF AnnounceList(decoded).st # "ok" THEN Exc(AnnounceList(decoded).st)
      ELSE IF ~Has(decoded, KInfo) THEN Exc("ValueError")
      ELSE IF Has(decoded, KComment) /\ ~CanDecode(At(decoded, KComment)) THEN Exc("AttributeError")
      ELSE IF Has(decoded, KCreatedBy) /\ ~CanDecode(At(decoded, KCreatedBy)) THEN Exc("AttributeError")
      ELSE IF ~CanDecode(GetOr(decoded, KEncoding, BBytes(<< >>))) THEN Exc("AttributeError")
      ELSE IF ParseInfo(At(decoded, KInfo)).st # "ok" THEN Exc(ParseInfo(At(decoded, KInfo)).st)
      ELSE Ok([info_hash |-> SHA1(InfoSpan(data)),
               announce |-> GetOr(decoded, KAnnounce, BBytes(<< >>)).b,
               announce_list |-> AnnounceList(decoded).v,
               creation_date |-> GetOr(decoded, KCreationDate, BNone),
               comment |-> GetOr(decoded, KComment, BNone),
               created_by |-> GetOr(decoded, KCreatedBy, BNone),
               encoding |-> GetOr(decoded, KEncoding, BBytes(B(<<"u", "t", "f", "-", "8">>))).b,
               info |-> ParseInfo(At(decoded, KInfo)).v])

(***************************************************************************)
(* The torrent files given to the loader: a top-level dict with the info   *)
(* dict first, last or between other keys, and an info dict with the       *)
(* single-file field, the multi-file field, both or neither, and a pieces  *)
(* string of any length.                                                   *)
(***************************************************************************)
\* <key><value> as they stand in a dict
Pair(key, v) == EncodeBytes(BBytes(key)) \o EncodeBytes(v)

AnnouncePair == Pair(KAnnounce, BBytes(B(<<"h", "t", "t", "p", ":", "/", "/", "x">>)))

CommentPair == Pair(KComment, BBytes(B(<<"e">>)))

UrlListPair == Pair(B(<<"u", "r", "l", "-", "l", "i", "s", "t">>), BBytes(B(<<"x">>)))

\* The pairs before and after the info pair.
Layouts ==
  {[before |-> b, after |-> a] :
     b \in {<< >>, AnnouncePair, AnnouncePair \o CommentPair},
     a \in {<< >>, UrlListPair}}
    \cup {[before |-> << >>, after |-> AnnouncePair]}

\* The file with the info value written as the bytes info.
TorrentFile(layout, info) ==
  <<100>> \o layout.before \o EncodeBytes(BBytes(KInfo)) \o info \o layout.after \o <<101>>

PiecesLengths == {20 * k + r : k \in 0..MaxPieces, r \in {0, 1, 19}}

PiecesBytes(n) == [k \in 1..n |-> 97 + (k % 5)]

FileEntries(n) ==
  [k \in 1..n |->
     BDict(<<BBytes(KLength), BInt(k),
             BBytes(KPath), BList(<<BBytes(B(<<"d">>)), BBytes(B(<<"f">>) \o Str(k))>>)>>)]

Shapes == {"single", "multi", "both", "neither"}

InfoDict(name, n, shape, files) ==
  BDict(<<BBytes(KName), BBytes(name),
          BBytes(KPieceLength), BInt(BLOCK_LEN),
          BBytes(KPieces), BBytes(PiecesBytes(n))>>
        \o (IF shape \in {"single", "both"} THEN <<BBytes(KLength), BInt(BLOCK_LEN)>> ELSE << >>)
        \o (IF shape \in {"multi", "both"}
            THEN <<BBytes(KFiles), BList(FileEntries(files))>> ELSE << >>))

Names == {B(<<"a", ".", "t", "x", "t">>), B(<<"e">>)}

InitMetadata ==
  /\ PeerLayerIdle
  /\ \E layout \in Layouts, name \in Names, n \in PiecesLengths,
        shape \in Shapes, files \in 1..MaxFiles :
        /\ shape \in {"single", "neither"} => files = 1
        /\ input = [kind |-> "torrent",
                    data |-> TorrentFile(layout, EncodeBytes(InfoDict(name, n, shape, files))),
                    info |-> EncodeBytes(InfoDict(name, n, shape, files)),
                    shape |-> shape, pieces |-> n]
  /\ output = NoResult
  /\ tracker = NewTracker

\* Torrent(torrent_path) on the file holding input.data
LoadCall ==
  /\ input.kind = "torrent"
  /\ output.fn = "none"
  /\ output' = [fn |-> "load", st |-> LoadTorrentFile(input.data).st,
                torrent |-> LoadTorrentFile(input.data).v]
  /\ UNCHANGED <<peerVars, input, tracker>>

NextMetadata == LoadCall

SpecMetadata == InitMetadata /\ [][NextMetadata]_vars

(***************************************************************************)
(* backend/app/tracker.py: Tracker._parse_peers_compact,                   *)
(* Tracker._parse_tracker_response and Tracker.http_announce.  The         *)
(* variable tracker holds the peers, interval and min_interval of the      *)
(* Tracker object; a str is the sequence of its code points.               *)
(***************************************************************************)
KFailureReason == B(<<"f", "a", "i", "l", "u", "r", "e", " ", "r", "e", "a", "s", "o", "n">>)

KInterval == B(<<"i", "n", "t", "e", "r", "v", "a", "l">>)

KMinInterval == B(<<"m", "i", "n", " ", "i", "n", "t", "e", "r", "v", "a", "l">>)

KPeers == B(<<"p", "e", "e", "r", "s">>)

KIp == B(<<"i", "p">>)

KPort == B(<<"p", "o", "r", "t">>)

\* Peer(ip=ip, port=port)
Peer(ip, port) == [ip |-> ip, port |-> port, peer_id |-> BNone]

\* The two port bytes read with the low byte first.
UnpackPortLittleEndian(port_bytes) == port_bytes[2] * 256 + port_bytes[1]

\* struct.unpack('!H', port_bytes)[0]
UnpackPort(port_bytes) == port_bytes[1] * 256 + port_bytes[2]

\* '.'.join(str(b) for b in ip_bytes)
RECURSIVE JoinDots(_)
JoinDots(ip_bytes) ==
  IF Len(ip_bytes) = 0 THEN << >>
  ELSE IF Len(ip_bytes) = 1 THEN Str(ip_bytes[1])
  ELSE Str(ip_bytes[1]) \o <<46>> \o JoinDots(Tail(ip_bytes))

\* Tracker._parse_peers_compact: the loop for i in range(0, len, 6), from i.
RECURSIVE ParsePeersFrom(_, _)
ParsePeersFrom(peers_data, i) ==
  IF i >= Len(peers_data) \/ i + 6 > Len(peers_data) THEN << >>
  ELSE <<Peer(JoinDots(PySlice(peers_data, i, i + 4)),
              BInt(UnpackPort(PySlice(peers_data, i + 4, i + 6))))>>
         \o ParsePeersFrom(peers_data, i + 6)

ParsePeersCompact(peers_data) == ParsePeersFrom(peers_data, 0)

\* Peer(ip=p[b'ip'].decode(), port=p[b'port']) for one entry of a peers list.
PeerOfDict(p) ==
  IF p.t # "dict" THEN Exc("TypeError")
  ELSE IF ~Has(p, KIp) THEN Exc("KeyError")
  ELSE IF ~CanDecode(At(p, KIp)) THEN Exc("AttributeError")
  ELSE IF ~Has(p, KPort) THEN Exc("KeyError")
  ELSE [st |-> "ok", v |-> Peer(At(p, KIp).b, At(p, KPort))]

\* "Tracker error: "
TrackerErrorPrefix ==
  B(<<"T", "r", "a", "c", "k", "e", "r", " ", "e", "r", "r", "o", "r", ":", " ">>)

\* "Error in tracker communication: "
CommunicationPrefix ==
  B(<<"E", "r", "r", "o", "r", " ", "i", "n", " ", "t", "r", "a", "c", "k", "e", "r", " ",
      "c", "o", "m", "m", "u", "n", "i", "c", "a", "t", "i", "o", "n", ":", " ">>)

\* "Failed to connect to tracker: "
ConnectPrefix ==
  B(<<"F", "a", "i", "l", "e", "d", " ", "t", "o", " ", "c", "o", "n", "n", "e", "c", "t", " ",
      "t", "o", " ", "t", "r", "a", "c", "k", "e", "r", ":", " ">>)

\* "No announce URL in torrent"
NoUrlMessage ==
  B(<<"N", "o", " ", "a", "n", "n", "o", "u", "n", "c", "e", " ", "U", "R", "L", " ",
      "i", "n", " ", "t", "o", "r", "r", "e", "n", "t">>)

\* What a method of Tracker does: the object after it, and "ok" or the class
\* of the exception it raised, with the message as far as it is modelled
\* (the text Python gives a KeyError, TypeError or AttributeError is not).
Outcome(tr, st, msg) == [tr |-> tr, st |-> st, msg |-> msg]

\* key in response, for a decoded value that is not a dict: a substring
\* test on bytes, a membership test on a list.
Contains(response, key) ==
  IF response.t = "bytes" THEN Find(response.b, key, 0) >= 0
  ELSE \E k \in 1..Len(response.items) : PyEq(response.items[k], BBytes(key))

\* The failure reason is looked at only in a response without peers.
StopsOnFailureWithoutPeers(response) ==
  Has(response, KFailureReason) /\ ~Has(response, KPeers)

\* if b'failure reason' in response
StopsOnFailure(response) == Has(response, KFailureReason)

\* self._parse_peers_compact(peers_data) on a value that is not a list:
\* len() of an int or of None raises; a dict of fewer than 6 entries ends
\* the loop at once, a longer one cannot be sliced.
ParsePeersOf(peers_data) ==
  IF peers_data.t = "bytes" THEN [st |-> "ok", v |-> ParsePeersCompact(peers_data.b)]
  ELSE IF peers_data.t = "dict" /\ Len(Keys(peers_data)) < 6 THEN [st |-> "ok", v |-> << >>]
  ELSE [st |-> "TypeError", v |-> << >>]

\* Tracker._parse_tracker_response.
ParseTrackerResponse(tr, response) ==
  IF response.t \in {"int", "none"} THEN Outcome(tr, "TypeError", << >>)
  ELSE IF response.t # "dict"
  THEN IF \E key \in {KFailureReason, KInterval, KMinInterval, KPeers} : Contains(response, key)
       THEN Outcome(tr, "TypeError", << >>)
       ELSE Outcome(tr, "ok", << >>)
  ELSE IF StopsOnFailure(response)
  THEN IF CanDecode(At(response, KFailureReason))
       THEN Outcome(tr, "TrackerError", TrackerErrorPrefix \o At(response, KFailureReason).b)
       ELSE Outcome(tr, "AttributeError", << >>)
  ELSE
    LET tr1 == IF Has(response, KInterval)
               THEN [tr EXCEPT !.interval = At(response, KInterval)] ELSE tr
        tr2 == IF Has(response, KMinInterval)
               THEN [tr1 EXCEPT !.min_interval = At(response, KMinInterval)] ELSE tr1
        peers_data == At(response, KPeers)
        n     == Len(peers_data.items)
        bad   == {k \in 1..n : PeerOfDict(peers_data.items[k]).st # "ok"}
        first == CHOOSE k \in bad : \A j \in bad : k <= j
        compact == ParsePeersOf(peers_data)
    IN  IF ~Has(response, KPeers) THEN Outcome(tr2, "ok", << >>)
        ELSE IF peers_data.t = "list"
        THEN IF bad # {}
             THEN Outcome(tr2, PeerOfDict(peers_data.items[first]).st, << >>)
             ELSE Outcome([tr2 EXCEPT !.peers = [k \in 1..n |-> PeerOfDict(peers_data.items[k]).v]],
                          "ok", << >>)
        ELSE IF compact.st = "ok"
        THEN Outcome([tr2 EXCEPT !.peers = compact.v], "ok", << >>)
        ELSE Outcome(tr2, compact.st, << >>)

\* What http_announce does: the Tracker after it, "ok" or TrackerError with
\* its message, the exception that was caught (cause), the value bdecode
\* returned when it did (parsed), and the list returned.
Announced(tr, st, msg, cause, parsed, decoded) ==
  [tr |-> tr, st |-> st, msg |-> msg, cause |-> cause, parsed |-> parsed,
   decoded |-> decoded, ret |-> IF st = "ok" THEN tr.peers ELSE << >>]

\* Tracker.http_announce from response.read() on, with the bdecode of
\* bencode.py: except Exception as e: raise TrackerError(f"Error in tracker
\* communication: {e}"), which catches the TrackerError of
\* _parse_tracker_response too.
HttpAnnounceBody(tr, response_data) ==
  LET d == BDecode(response_data)
      r == ParseTrackerResponse(tr, d.v)
  IN  IF d.st # "ok"
      THEN Announced(tr, "TrackerError", CommunicationPrefix, d.st, FALSE, BNone)
      ELSE IF r.st = "ok" THEN Announced(r.tr, "ok", << >>, "none", TRUE, d.v)
      ELSE Announced(r.tr, "TrackerError", CommunicationPrefix \o r.msg, r.st, TRUE, d.v)

(***************************************************************************)
(* The announce URLs of the torrent and the bodies a tracker answers with: *)
(* a bencoded dict with any of failure reason, interval, min interval and  *)
(* peers (compact, or a list of dicts), and bodies that are no dict.       *)
(***************************************************************************)
AnnounceUrls == {<< >>, B(<<"h", "t", "t", "p", ":", "/", "/", "t", "/", "a">>)}

\* A failure reason that is text, and one that is not.
Reasons == {BBytes(B(<<"b", "a", "d">>)), BInt(7)}

\* Compact peers: 2 records and 3 bytes more.
CompactPeers ==
  {BBytes(<<10, 0, 0, 1, 26, 225, 192, 168, 1, 20, 0, 80, 1, 2, 3>>)}

PeerDict(port) == BDict(<<BBytes(KIp), BBytes(B(<<"1", ".", "2", ".", "3", ".", "4">>))>> \o port)

\* A list of one peer, and a list whose second entry has no port.
ListPeers ==
  {BList(<<PeerDict(<<BBytes(KPort), BInt(6881)>>)>>),
   BList(<<PeerDict(<<BBytes(KPort), BInt(6881)>>), PeerDict(<< >>)>>)}

PeersFields == CompactPeers \cup ListPeers \cup {BInt(3)}

Field(key, value) == IF value = BNone THEN << >> ELSE <<BBytes(key), value>>

ResponseDict(reason, interval, min_interval, peers_field) ==
  BDict(Field(KFailureReason, reason) \o Field(KInterval, interval)
          \o Field(KMinInterval, min_interval) \o Field(KPeers, peers_field))

DictBodies ==
  {EncodeBytes(ResponseDict(reason, interval, min_interval, peers_field)) :
     reason \in Reasons \cup {BNone}, interval \in {BNone, BInt(60)},
     min_interval \in {BNone, BInt(30)}, peers_field \in PeersFields \cup {BNone}}

\* Bodies that are not a bencoded dict: nothing, a lone "e", an integer, the
\* byte string b"failure reason", a list of it.
OtherBodies ==
  {<< >>, <<101>>, B(<<"i", "1", "e">>), EncodeBytes(BBytes(KFailureReason)),
   EncodeBytes(BList(<<BBytes(KFailureReason)>>)), EncodeBytes(BBytes(B(<<"o", "k">>)))}

InitTracker ==
  /\ PeerLayerIdle
  /\ \E url \in AnnounceUrls : input = [kind |-> "tracker", announce |-> url]
  /\ output = NoResult
  /\ tracker = NewTracker

AnnounceResult(a, response_data) ==
  [fn |-> "announce", st |-> a.st, msg |-> a.msg, cause |-> a.cause,
   parsed |-> a.parsed, decoded |-> a.decoded, ret |-> a.ret, data |-> response_data]

\* if not self.torrent.announce: raise TrackerError("No announce URL in torrent")
HttpAnnounceNoUrl ==
  /\ input.kind = "tracker"
  /\ input.announce = << >>
  /\ output' = AnnounceResult(
                 Announced(tracker, "TrackerError", NoUrlMessage, "none", FALSE, BNone), << >>)
  /\ UNCHANGED <<peerVars, input, tracker>>

\* urlopen raises URLError (HTTPError, of a status that is no success, is one).
HttpAnnounceUnreachable ==
  /\ input.kind = "tracker"
  /\ input.announce # << >>
  /\ output' = AnnounceResult(
                 Announced(tracker, "TrackerError", ConnectPrefix, "URLError", FALSE, BNone), << >>)
  /\ UNCHANGED <<peerVars, input, tracker>>

\* from bencode import bdecode raises: no module of that name is found, or
\* the one found does not compile.
HttpAnnounceNoDecoder ==
  /\ input.kind = "tracker"
  /\ input.announce # << >>
  /\ output' = AnnounceResult(
                 Announced(tracker, "TrackerError", CommunicationPrefix, "ImportError", FALSE, BNone),
                 << >>)
  /\ UNCHANGED <<peerVars, input, tracker>>

\* http_announce with the body response_data read from the tracker.
HttpAnnounce(response_data) ==
  /\ input.kind = "tracker"
  /\ input.announce # << >>
  /\ LET a == HttpAnnounceBody(tracker, response_data)
     IN  /\ output' = AnnounceResult(a, response_data)
         /\ tracker' = a.tr
  /\ UNCHANGED <<peerVars, input>>

NextTracker ==
  \/ HttpAnnounceNoUrl
  \/ HttpAnnounceUnreachable
  \/ HttpAnnounceNoDecoder
  \/ \E body \in DictBodies : HttpAnnounce(body)
  \/ \E body \in OtherBodies : HttpAnnounce(body)

SpecTracker == InitTracker /\ [][NextTracker]_vars

(***************************************************************************)
(* Tracker._parse_peers_compact applied to byte strings of every length up *)
(* to MaxCompactLen, the k-th byte being (step * k + first) % 256.         *)
(***************************************************************************)
CompactData(n, step, first) == [k \in 1..n |-> (step * k + first) % 256]

InitPeersCompact ==
  /\ PeerLayerIdle
  /\ \E n \in 0..MaxCompactLen, step \in {0, 1, 7, 37, 101}, first \in {0, 5, 200, 255} :
        input = [kind |-> "peers_data", data |-> CompactData(n, step, first)]
  /\ output = NoResult
  /\ tracker = NewTracker

ParsePeersCompactCall ==
  /\ input.kind = "peers_data"
  /\ output.fn = "none"
  /\ output' = [fn |-> "parse_peers_compact", st |-> "ok",
                peers |-> ParsePeersCompact(input.data)]
  /\ UNCHANGED <<peerVars, input, tracker>>

NextPeersCompact == ParsePeersCompactCall

SpecPeersCompact == InitPeersCompact /\ [][NextPeersCompact]_vars

(***************************************************************************)
(* Tracker.announce, with Tracker._prepare_http_announce and               *)
(* Tracker.udp_announce: every call with an event, on torrents with each   *)
(* kind of announce URL.  An event is the str the caller passes.           *)
(***************************************************************************)
Events == {"", "started", "stopped", "completed"}

\* s.startswith(prefix)
StartsWith(s, prefix) ==
  Len(s) >= Len(prefix) /\ SubSeq(s, 1, Len(prefix)) = prefix

\* 'event': event or 'started'
EventParam(event) == IF event = "" THEN "started" ELSE event

\* Tracker._prepare_http_announce: the parameters that do not depend on the
\* torrent or on the transfer counters.
PrepareHttpAnnounce(event) ==
  [port |-> "6881", compact |-> "1", event |-> EventParam(event)]

\* No request was made.
NoParams == [port |-> "", compact |-> "", event |-> ""]

\* "Unsupported tracker protocol: "
UnsupportedPrefix ==
  B(<<"U", "n", "s", "u", "p", "p", "o", "r", "t", "e", "d", " ", "t", "r", "a", "c", "k", "e", "r", " ",
      "p", "r", "o", "t", "o", "c", "o", "l", ":", " ">>)

\* "UDP tracker support not implemented yet"
UdpMessage ==
  B(<<"U", "D", "P", " ", "t", "r", "a", "c", "k", "e", "r", " ", "s", "u", "p", "p", "o", "r", "t", " ",
      "n", "o", "t", " ", "i", "m", "p", "l", "e", "m", "e", "n", "t", "e", "d", " ", "y", "e", "t">>)

Scheme(name) == B(name) \o B(<<":", "/", "/", "t", "/", "a">>)

TrackerUrls ==
  {<< >>, Scheme(<<"h", "t", "t", "p">>), Scheme(<<"h", "t", "t", "p", "s">>),
   Scheme(<<"u", "d", "p">>), Scheme(<<"f", "t", "p">>), Scheme(<<"w", "s">>)}

\* Bodies of a tracker: peers with an interval, a failure, peers alone, no
\* bencoded value.
AnnounceBodies ==
  {EncodeBytes(ResponseDict(BNone, BInt(60), BNone, peers_field)) : peers_field \in CompactPeers}
    \cup {EncodeBytes(ResponseDict(BNone, BNone, BNone, peers_field)) : peers_field \in ListPeers}
    \cup {EncodeBytes(ResponseDict(BBytes(B(<<"b", "a", "d">>)), BNone, BNone, BNone)),
          EncodeBytes(ResponseDict(BNone, BNone, BInt(30), BNone)), << >>}

InitAnnounce ==
  /\ PeerLayerIdle
  /\ \E url \in TrackerUrls : input = [kind |-> "announce", announce |-> url]
  /\ output = NoResult
  /\ tracker = NewTracker

\* What the caller of announce(event) gets: the exception raised or "ok",
\* its message, whether urlopen was called and with which parameters.
AnnounceReturn(event, st, msg, requested, ret) ==
  [fn |-> "announce_call", event |-> event, st |-> st, msg |-> msg,
   requested |-> requested,
   params |-> IF requested THEN PrepareHttpAnnounce(event) ELSE NoParams,
   ret |-> ret]

\* if not self.torrent.announce: raise TrackerError("No announce URL in torrent")
AnnounceNoUrl(event) ==
  /\ input.kind = "announce"
  /\ input.announce = << >>
  /\ output' = AnnounceReturn(event, "TrackerError", NoUrlMessage, FALSE, << >>)
  /\ UNCHANGED <<peerVars, input, tracker>>

\* elif self.torrent.announce.startswith('udp'): return self.udp_announce()
AnnounceUdp(event) ==
  /\ input.kind = "announce"
  /\ input.announce # << >>
  /\ ~StartsWith(input.announce, B(<<"h", "t", "t", "p">>))
  /\ StartsWith(input.announce, B(<<"u", "d", "p">>))
  /\ output' = AnnounceReturn(event, "NotImplementedError", UdpMessage, FALSE, << >>)
  /\ UNCHANGED <<peerVars, input, tracker>>

\* else: raise TrackerError(f"Unsupported tracker protocol: {...}")
AnnounceUnsupported(event) ==
  /\ input.kind = "announce"
  /\ input.announce # << >>
  /\ ~StartsWith(input.announce, B(<<"h", "t", "t", "p">>))
  /\ ~StartsWith(input.announce, B(<<"u", "d", "p">>))
  /\ output' = AnnounceReturn(event, "TrackerError", UnsupportedPrefix \o input.announce,
                              FALSE, << >>)
  /\ UNCHANGED <<peerVars, input, tracker>>

\* if self.torrent.announce.startswith('http'): return self.http_announce(event),
\* where urlopen raises URLError.
AnnounceHttpUnreachable(event) ==
  /\ input.kind = "announce"
  /\ StartsWith(input.announce, B(<<"h", "t", "t", "p">>))
  /\ output' = AnnounceReturn(event, "TrackerError", ConnectPrefix, TRUE, << >>)
  /\ UNCHANGED <<peerVars, input, tracker>>

\* The same, where the import of bdecode raises.
AnnounceHttpNoDecoder(event) ==
  /\ input.kind = "announce"
  /\ StartsWith(input.announce, B(<<"h", "t", "t", "p">>))
  /\ output' = AnnounceReturn(event, "TrackerError", CommunicationPrefix, TRUE, << >>)
  /\ UNCHANGED <<peerVars, input, tracker>>

\* The same, where the tracker answers with the body response_data.
AnnounceHttp(event, response_data) ==
  /\ input.kind = "announce"
  /\ StartsWith(input.announce, B(<<"h", "t", "t", "p">>))
  /\ LET a == HttpAnnounceBody(tracker, response_data)
     IN  /\ output' = AnnounceReturn(event, a.st, a.msg, TRUE, a.ret)
         /\ tracker' = a.tr
  /\ UNCHANGED <<peerVars, input>>

NextAnnounce ==
  \E event \in Events :
    \/ AnnounceNoUrl(event)
    \/ AnnounceUdp(event)
    \/ AnnounceUnsupported(event)
    \/ AnnounceHttpUnreachable(event)
    \/ AnnounceHttpNoDecoder(event)
    \/ \E body \in AnnounceBodies : AnnounceHttp(event, body)

SpecAnnounce == InitAnnounce /\ [][NextAnnounce]_vars

(***************************************************************************)
(* The claims.                                                             *)
(***************************************************************************)
\* The task whose call a step starts.
Calls(t, op) == Free(t) /\ calls' = calls + 1 /\ task'[t].op = op

\* A call that has returned.
Returned(t, op) == task[t].pc = "done" /\ task[t].op = op

ProtocolOf(response) == SubSeq(response, 2, 20)

InfoHashOf(response) == SubSeq(response, 29, 48)

\* perform_handshake of the session of task t has read its response.
HandshakeAnswered(t) ==
  /\ task[t].op = "add_peer"
  /\ task[t].pc \in {"done", "ap_lock"}
  /\ task[t].peer # 0
  /\ sess[task[t].peer].connected

\* C2: perform_handshake returns success only if the response has 68 bytes,
\* the protocol string "BitTorrent protocol" and the local info_hash; a
\* 68-byte response with another info_hash makes it return failure.
C2_HandshakeRequiresMatch ==
  \A t \in Tasks :
    HandshakeAnswered(t) =>
      LET response == task[t].resp
          success  == sess[task[t].peer].handshaken
      IN  /\ success => /\ Len(response) = 68
                        /\ ProtocolOf(response) = PSTR
                        /\ InfoHashOf(response) = InfoHash
          /\ (Len(response) = 68 /\ InfoHashOf(response) # InfoHash) => ~success

\* One handshake accepted and, on another session, a response that differs
\* from the right one in the last byte of its info_hash only, refused.
C2_Witness ==
  \E t, u \in Tasks :
    /\ HandshakeAnswered(t) /\ sess[task[t].peer].handshaken
    /\ HandshakeAnswered(u) /\ ~sess[task[u].peer].handshaken
    /\ task[u].resp = HandshakeBytes("hash_last")

\* C3: after add_peer returned None, the session it created has no open
\* connection.
C3_FailedSessionClosed ==
  \A t \in Tasks :
    (Returned(t, "add_peer") /\ task[t].ret.st = "none" /\ task[t].peer # 0) =>
      ~(sess[task[t].peer].connected /\ sess[task[t].peer].writer = "open")

\* C4: a request is written to a session only while its peer_choking is false.
C4_RequestOnlyWhenUnchoked ==
  [][\A s \in SessIds :
       sess'[s].requests > sess[s].requests => ~sess[s].peer_choking]_vars

\* C5: a piece message whose index or begin differs from the request is a
\* protocol error: its data is not returned as the block.
C5_UnmatchedPieceRejected ==
  \A t \in Tasks :
    ( /\ task[t].pc = "done"
      /\ task[t].op \in {"request_piece", "start_download"}
      /\ task[t].message_id = MSG_PIECE
      /\ (task[t].got_piece # task[t].piece \/ task[t].got_offset # task[t].begin) )
    => task[t].ret.st \notin {"data", "200"}

\* C6: a request is not written on a session while another call on that
\* session has written its request and not yet read its response.
C6_OneOutstandingRequest ==
  [][\A s \in SessIds :
       sess'[s].requests > sess[s].requests =>
         ~\E u \in Tasks : task[u].peer = s /\ task[u].pc \in RpPcs]_vars

\* C7: a caller suspended in connect or in a read can always go on by a step
\* of its own (the bytes, the end of the stream, or a timeout), whatever the
\* peer does or does not do.
C7_EveryWaitBounded ==
  \A t \in Tasks :
    /\ task[t].pc = "ap_connect" => ENABLED (ConnectOk(t) \/ ConnectFail(t))
    /\ task[t].pc = "hs_read" => ENABLED HandshakeRead(t)
    /\ task[t].pc \in RpPcs => ENABLED RequestPieceResume(t)

\* C8: add_peer for an address that is in the registry returns the registered
\* session, creates no session, opens no connection and leaves the registry
\* as it is.
C8_AddPeerIdempotent ==
  [][\A t \in Tasks :
       (Calls(t, "add_peer") /\ DictHas(peers, task'[t].addr)) =>
         /\ task'[t].pc = "done"
         /\ task'[t].ret = [st |-> "sess", sess |-> DictGet(peers, task'[t].addr), data |-> << >>]
         /\ peers' = peers
         /\ sess' = sess]_vars

\* add_peer has returned a session it did not create, the one registered.
C8_Witness ==
  \E t \in Tasks :
    /\ Returned(t, "add_peer")
    /\ task[t].peer = 0
    /\ task[t].ret.st = "sess"
    /\ DictHas(peers, task[t].addr)
    /\ DictGet(peers, task[t].addr) = task[t].ret.sess

\* C9: every session in the registry was connected and has completed a
\* successful handshake, and an add_peer whose connect or handshake fails
\* returns None and leaves the registry as it was.
C9_RegisteredAfterHandshake ==
  /\ [](\A k \in 1..Len(peers) :
          /\ sess[peers[k].sess].handshaken
          /\ sess[peers[k].sess].hs_out
          /\ sess[peers[k].sess].writer # "none")
  /\ [][\A t \in Tasks :
          ( /\ task[t].pc \in {"ap_connect", "hs_read"}
            /\ task'[t].pc # task[t].pc
            /\ ~sess'[task[t].peer].handshaken )
          => /\ task'[t].pc \in {"hs_read", "done"}
             /\ task'[t].pc = "done" => task'[t].ret.st = "none"
             /\ peers' = peers]_vars

\* A session is registered, and an add_peer whose handshake failed has
\* returned None.
C9_Witness ==
  /\ Len(peers) > 0
  /\ \E t \in Tasks :
       /\ Returned(t, "add_peer")
       /\ task[t].ret.st = "none"
       /\ task[t].peer # 0
       /\ sess[task[t].peer].connected
       /\ ~sess[task[t].peer].handshaken

\* C10: the registry changes only in a step of a task while no other task
\* holds the lock; a task that is connecting or in its handshake does not hold
\* the lock; and add_peer's look at the registry does not happen while
\* another task holds the lock.
C10_RegistryUnderLock ==
  [][ /\ peers' # peers =>
           \E t \in Tasks : task'[t] # task[t] /\ lock \in {0, t}
      /\ \A t \in Tasks :
           task[t].pc \in {"ap_connect", "hs_read"} => lock # t
      /\ \A t \in Tasks :
           Calls(t, "add_peer") => lock = 0 ]_vars

\* C11: get_peer_for_piece(index) returns the earliest registered session
\* whose pieces_have contains index, returns None exactly when no registered
\* session has it, and leaves the registry as it is.
C11_EarliestHolderReturned ==
  [][\A t \in Tasks :
       ( /\ task'[t] # task[t]
         /\ task'[t].op = "get_peer_for_piece"
         /\ task'[t].pc = "done" ) =>
         LET index   == task'[t].piece
             holders == {k \in 1..Len(peers) : index \in sess[peers[k].sess].pieces_have}
             ret     == task'[t].ret
         IN  /\ peers' = peers
             /\ ret.st = "none" <=> holders = {}
             /\ holders # {} =>
                  /\ ret.st = "sess"
                  /\ \E k \in holders : /\ peers[k].sess = ret.sess
                                        /\ \A j \in 1..(k - 1) : j \notin holders]_vars

\* Two registered sessions have the piece, and the lookup has returned the one
\* registered first.
C11_Witness ==
  \E t \in Tasks :
    /\ Returned(t, "get_peer_for_piece")
    /\ task[t].ret.st = "sess"
    /\ Len(peers) = 2
    /\ \A k \in 1..2 : task[t].piece \in sess[peers[k].sess].pieces_have
    /\ task[t].ret.sess = peers[1].sess
    /\ peers[1].sess # peers[2].sess

\* The message at the head of a buffer, when a whole one is there: its id and
\* its payload by the framing of the wire format (4 bytes of length, then
\* the id, then length - 1 bytes).
HeadIs(buf, id) ==
  /\ Len(buf) >= 5
  /\ Len(buf) >= 4 + Unpack32(SubSeq(buf, 1, 4))
  /\ buf[5] = id

HeadPayload(buf) == SubSeq(buf, 6, 4 + Unpack32(SubSeq(buf, 1, 4)))

\* The pieces a bitfield payload announces.
BitfieldPieces(payload) ==
  {i \in Pieces : /\ i \div 8 < Len(payload)
                  /\ (payload[i \div 8 + 1] \div Pow2(7 - (i % 8))) % 2 = 1}

\* Task t reads the next message of its session in this step.
ReadsMessage(t) ==
  /\ task[t].pc = "rp_len"
  /\ task'[t] # task[t]

\* C12: when the client reads a have(i) of a peer, i is in the session's
\* pieces_have afterwards, and when it reads a bitfield, every piece whose
\* bit is set is.
C12_AnnouncedPiecesRecorded ==
  [][\A t \in Tasks :
       ReadsMessage(t) =>
         LET s   == task[t].peer
             buf == sess[s].inbuf
         IN  /\ (HeadIs(buf, 4) /\ Len(HeadPayload(buf)) = 4) =>
                  Unpack32(HeadPayload(buf)) \in sess'[s].pieces_have
             /\ HeadIs(buf, 5) =>
                  BitfieldPieces(HeadPayload(buf)) \subseteq sess'[s].pieces_have]_vars

\* Task t returns from op in this step.
Returns(t, op) ==
  /\ task'[t] # task[t]
  /\ task'[t].op = op
  /\ task'[t].pc = "done"

\* C13: when close_all returns, the registry is empty and every session that
\* was registered when it started is closed (connected is False): the
\* registry does not change while close_all works on it, every session in it
\* is closed at the return, and a closed session stays closed.
C13_CloseAllClosesAndClears ==
  /\ [][\A t \in Tasks :
          Returns(t, "close_all") =>
            /\ peers' = << >>
            /\ \A k \in 1..Len(peers) : ~sess'[peers[k].sess].connected]_vars
  /\ [][\A t \in Tasks :
          (task[t].pc = "ca_wait" /\ task'[t].pc # "done") => peers' = peers]_vars
  /\ [][\A s \in SessIds :
          (sess[s].writer = "closed" /\ ~sess[s].connected) => ~sess'[s].connected]_vars

\* close_all has returned after closing at least one registered session.
C13_Witness ==
  \E t \in Tasks :
    /\ Returned(t, "close_all")
    /\ task[t].k >= 1
    /\ peers = << >>
    /\ \E s \in SessIds :
         sess[s].handed /\ sess[s].writer = "closed" /\ ~sess[s].connected

\* C14: closed is terminal: once close() has completed on a session, no
\* operation makes it connected again or writes on it to the network.
C14_ClosedIsTerminal ==
  [][\A s \in SessIds :
       (sess[s].writer = "closed" /\ ~sess[s].connected) =>
         /\ ~sess'[s].connected
         /\ sess'[s].writer = "closed"
         /\ sess'[s].requests = sess[s].requests]_vars

\* C15: a request_piece that returns no data leaves the session's connected
\* flag, its connection and the registry as they were, and a request_piece
\* on a session that is connected is written to the wire, whatever became of
\* the requests before it.
C15_FailedRequestKeepsSession ==
  /\ [][\A t \in Tasks :
          (Returns(t, "request_piece") /\ task'[t].ret.st = "none") =>
            LET s == task'[t].peer
            IN  /\ sess'[s].connected = sess[s].connected
                /\ sess'[s].writer = sess[s].writer
                /\ peers' = peers]_vars
  /\ [][\A t \in Tasks :
          Calls(t, "request_piece") =>
            LET s == task'[t].peer
            IN  (sess[s].connected /\ sess[s].writer = "open") =>
                  sess'[s].requests = sess[s].requests + 1]_vars

\* One caller has made a request on a session whose peer sent nothing and
\* ended the stream, so that the request failed, and then a second request on
\* the same session, which was written: the session is still connected and
\* registered.
C15_Witness ==
  \E s \in SessIds :
    /\ sess[s].requests = 2
    /\ sess[s].peer_msgs = 0
    /\ sess[s].eof
    /\ sess[s].connected /\ sess[s].writer = "open"
    /\ \E k \in 1..Len(peers) : peers[k].sess = s
    /\ task[1].op = "request_piece" /\ task[1].peer = s
    /\ \A u \in Tasks \ {1} : task[u].pc = "idle"

\* A buffer without the keep-alives at its head.
RECURSIVE SkipKeepAlives(_)
SkipKeepAlives(buf) ==
  IF Len(buf) >= 4 /\ SubSeq(buf, 1, 4) = KeepAlive
  THEN SkipKeepAlives(Drop(buf, 4))
  ELSE buf

\* The head of a buffer is a whole piece message for piece i at offset b.
HeadIsPiece(buf, i, b) ==
  /\ HeadIs(buf, MSG_PIECE)
  /\ Len(HeadPayload(buf)) >= 8
  /\ Unpack32(SubSeq(HeadPayload(buf), 1, 4)) = i
  /\ Unpack32(SubSeq(HeadPayload(buf), 5, 8)) = b

\* C16: keep-alives are ignored: a request that reads keep-alives and nothing
\* after them goes on waiting for its response, and one that reads keep-alives
\* followed by the matching piece message returns the data of that message.
C16_KeepAliveIgnored ==
  [][\A t \in Tasks :
       ReadsMessage(t) =>
         LET s    == task[t].peer
             buf  == sess[s].inbuf
             rest == SkipKeepAlives(buf)
         IN  /\ (rest # buf /\ rest = << >> /\ ~sess[s].eof) =>
                  task'[t].pc = "rp_len"
             /\ (rest # buf /\ HeadIsPiece(rest, task[t].piece, task[t].begin)) =>
                  /\ task'[t].pc = "done"
                  /\ task'[t].ret.data = Drop(HeadPayload(rest), 8)]_vars

\* Task t reads from its session in this step as request_piece does first:
\* resuming its read of the length prefix, or in the call itself.
ReadsResponse(t) ==
  \/ ReadsMessage(t)
  \/ /\ Calls(t, "request_piece")
     /\ Usable(sess[task'[t].peer])
     /\ ~OtherWaiting(t, task'[t].peer)

\* C17: a request answered by the matching piece message with length prefix
\* n (n >= 9) returns exactly the n - 9 bytes that follow index and begin,
\* and takes exactly that message from the stream.
C17_PieceDataReturned ==
  [][\A t \in Tasks :
       LET s   == task'[t].peer
           buf == sess[s].inbuf
           n   == Unpack32(SubSeq(buf, 1, 4))
       IN  (ReadsResponse(t) /\ HeadIsPiece(buf, task'[t].piece, task'[t].begin)) =>
             /\ n >= 9
             /\ task'[t].pc = "done"
             /\ task'[t].ret.st = "data"
             /\ Len(task'[t].ret.data) = n - 9
             /\ task'[t].ret.data = SubSeq(buf, 14, 4 + n)
             /\ sess'[s].inbuf = SubSeq(buf, 5 + n, Len(buf))]_vars

\* A request for a block of 16 KiB has returned the 16384 bytes of the piece
\* message that answered it.
C17_Witness ==
  \E t \in Tasks :
    /\ Returned(t, "request_piece")
    /\ task[t].ret.st = "data"
    /\ task[t].got_piece = task[t].piece
    /\ task[t].got_offset = task[t].begin
    /\ task[t].length = 9 + BLOCK_LEN
    /\ Len(task[t].ret.data) = 16384
    /\ task[t].ret.data = FullBlock

\* The offsets of the blocks of a piece of length L: ceil(L / 16384) blocks
\* of at most 16 KiB.
BlockOffsets(L) == {k * BLOCK_LEN : k \in 0..(((L + BLOCK_LEN - 1) \div BLOCK_LEN) - 1)}

\* The block at offset off of a buffer.
BlockAt(buf, off) == Slice(buf, off, off + BLOCK_LEN)

LoopReturned(t) ==
  /\ task[t].op = "connect_peers"
  /\ task[t].pc = "done"
  /\ task[t].ret.st = "200"

\* C20: a peer whose connect or handshake fails does not keep the other
\* peers of the list from being tried and registered, and changes nothing in
\* the registry or in a registered session: when the loop has ended, add_peer
\* has been called for every peer of the list, every one whose handshake
\* succeeded is registered and every one add_peer returned a session for is
\* in connected_peers is registered; the step in which an add_peer fails
\* leaves the registry and its sessions as they were; and after it the loop
\* can go on (as far as the bounds of the model have room for the next peer).
C20_PeerFailuresIsolated ==
  /\ [](\A t \in Tasks :
          LoopReturned(t) =>
            /\ \A k \in 1..Len(task[t].addrs) :
                 task[t].addrs[k] # SelfAddr =>
                   /\ Known(task[t].addrs[k])
                   /\ (\E s \in SessIds : /\ sess[s].addr = task[t].addrs[k]
                                          /\ sess[s].handshaken)
                        => DictHas(peers, task[t].addrs[k])
            /\ \A k \in 1..Len(task[t].connected_peers) :
                 DictHas(peers, task[t].connected_peers[k]))
  /\ [][\A t \in Tasks :
          ( /\ task[t].op = "connect_peers"
            /\ task[t].pc \in {"ap_connect", "hs_read"}
            /\ task'[t].pc = "done"
            /\ task'[t].ret.st = "none" ) =>
            /\ peers' = peers
            /\ \A k \in 1..Len(peers) : sess'[peers[k].sess] = sess[peers[k].sess]]_vars
  /\ [](\A t \in Tasks :
          ( /\ task[t].op = "connect_peers"
            /\ task[t].pc = "done"
            /\ task[t].ret.st = "none" ) =>
            \/ ENABLED ConnectPeersNext(t)
            \/ calls = MaxCalls
            \/ \A s \in SessIds : sess[s].made)

\* The loop over two peers has ended: the handshake with the first failed,
\* and the second was tried after it, is registered and is the one in
\* connected_peers.
C20_Witness ==
  \E t \in Tasks :
    /\ LoopReturned(t)
    /\ Len(task[t].addrs) = 2
    /\ task[t].addrs[1] # task[t].addrs[2]
    /\ task[t].connected_peers = <<task[t].addrs[2]>>
    /\ DictHas(peers, task[t].addrs[2])
    /\ ~DictHas(peers, task[t].addrs[1])
    /\ \E s \in SessIds : /\ sess[s].addr = task[t].addrs[1]
                           /\ sess[s].connected
                           /\ ~sess[s].handshaken

\* C21: decode(encode(v)) == v for every value v built from integers
\* (negative, zero, positive), byte strings (the empty one included) and
\* nested lists and dicts with byte-string keys (empty ones included):
\* encode returns bytes for v, and decode of them returns a value equal to v.
C21_RoundTrip ==
  /\ output.fn = "encode" => output.st = "ok"
  /\ output.fn = "decode" => output.st = "ok" /\ PyEq(output.v, input.v)

\* A dict whose keys were inserted in descending order, holding a list that
\* holds a container, has been encoded and decoded.
C21_Witness ==
  /\ output.fn = "decode"
  /\ input.v.t = "dict"
  /\ Len(Keys(input.v)) = 2
  /\ BytesLess(Keys(input.v)[2].b, Keys(input.v)[1].b)
  /\ input.v.items[2].t = "list"
  /\ input.v.items[2].items # << >>
  /\ input.v.items[2].items[1].t \in {"list", "dict"}

\* Every dict of v, at any depth, has its keys in strictly ascending order
\* of bytes.
RECURSIVE KeysAscending(_)
KeysAscending(v) ==
  /\ v.t = "dict" =>
        \A k \in 1..(Len(Keys(v)) - 1) : BytesLess(Keys(v)[k].b, Keys(v)[k + 1].b)
  /\ \A k \in 1..Len(v.items) : KeysAscending(v.items[k])

\* The dict d built in the insertion order p of its keys.
Reordered(d, p) ==
  BDict([k \in 1..Len(d.items) |->
           IF k % 2 = 1 THEN d.items[2 * p[(k + 1) \div 2] - 1] ELSE d.items[2 * p[k \div 2]]])

Orders(n) == {p \in [1..n -> 1..n] : \A i, j \in 1..n : i # j => p[i] # p[j]}

\* v with every dict in it, at any depth, built in the opposite order.
RECURSIVE Reversed(_)
Reversed(v) ==
  LET n  == Len(v.items)
      rs == [k \in 1..n |-> Reversed(v.items[k])]
  IN  IF v.t = "dict"
      THEN [v EXCEPT !.items = [k \in 1..n |->
                                  IF k % 2 = 1 THEN rs[n - k] ELSE rs[n + 2 - k]]]
      ELSE [v EXCEPT !.items = rs]

\* C22: encode of a dict emits the keys in strictly ascending
\* byte-lexicographic order whatever the order in which the dict was built:
\* the keys read back from the emitted bytes, in the order of the bytes, are
\* ascending in every dict, and the same pairs inserted in any other order
\* (and every nested dict in the opposite order) give the same bytes.
C22_DictKeysSorted ==
  /\ output.fn = "decode" => KeysAscending(output.v)
  /\ output.fn = "encode" /\ input.v.t = "dict" =>
        /\ \A p \in Orders(Len(Keys(input.v))) :
              Encode(Reordered(input.v, p)) = [st |-> "ok", b |-> output.b]
        /\ PyEq(Reversed(input.v), input.v)
        /\ Encode(Reversed(input.v)) = [st |-> "ok", b |-> output.b]

\* A dict whose keys were inserted in descending order, holding a dict built
\* in descending order too, has been encoded.
C22_Witness ==
  /\ output.fn = "encode"
  /\ input.v.t = "dict"
  /\ Len(Keys(input.v)) = 2
  /\ BytesLess(Keys(input.v)[2].b, Keys(input.v)[1].b)
  /\ input.v.items[2].t = "dict"
  /\ Len(Keys(input.v.items[2])) = 2
  /\ BytesLess(Keys(input.v.items[2])[2].b, Keys(input.v.items[2])[1].b)

\* The text between i and e of a well-formed integer: 0, or an optional
\* minus sign and digits that do not start with 0.
WellFormedInt(body) ==
  LET ds == IF body # << >> /\ body[1] = "-" THEN Tail(body) ELSE body
  IN  \/ body = <<"0">>
      \/ /\ ds # << >>
         /\ \A k \in 1..Len(ds) : ds[k] \in {"0", "1", "7"}
         /\ ds[1] # "0"

\* C23: decode rejects malformed integers with a decode error: "i-0e",
\* "i e", an integer with no digits and any integer with a leading zero
\* other than "i0e" raise BencodeDecodeError instead of returning a value.
C23_MalformedIntRejected ==
  \A body \in IntBodies :
    /\ output.fn = "decode"
    /\ output.of = IntText(body)
    /\ ~WellFormedInt(body)
    => output.st = "BencodeDecodeError"

\* C24: decode of a byte string whose declared length exceeds the bytes
\* that remain in the input (such as "4:ab") raises a decode error; decode
\* never returns a byte string shorter than its declared length.
C24_ShortStringRejected ==
  \A declared \in 0..(MaxText + 1), data \in StringData :
    /\ output.fn = "decode"
    /\ output.of = StringText(declared, data)
    => IF declared > Len(data)
       THEN output.st = "BencodeDecodeError"
       ELSE output.st = "ok" /\ Len(output.v.b) = declared

C26_InfoHashOfInfoSpan ==
  output.fn = "load" /\ output.st = "ok"
    => output.torrent.info_hash = SHA1(input.info)

\* C27: loading metadata whose info dict has both the single-file field
\* length and the multi-file field files, or has neither, fails with an
\* error and produces no metadata object.
C27_OneFileShapeRequired ==
  output.fn = "load" /\ input.shape \in {"both", "neither"}
    => output.st # "ok"

\* C28: loading metadata whose pieces byte string has a length that is not
\* a multiple of 20 fails with an error; every loaded metadata has a pieces
\* list made only of 20-byte hashes.
C28_PiecesMultipleOf20 ==
  output.fn = "load" =>
    /\ input.pieces % 20 # 0 => output.st # "ok"
    /\ output.st = "ok" =>
          \A k \in 1..Len(output.torrent.info.pieces) : Len(output.torrent.info.pieces[k]) = 20

\* The failure reason of the response an announce decoded.
FailureOf(o) == At(o.decoded, KFailureReason)

\* An announce whose decoded response is a dict with a failure reason.
AnsweredFailure(o) ==
  /\ o.fn = "announce"
  /\ o.parsed
  /\ o.decoded.t = "dict"
  /\ Has(o.decoded, KFailureReason)

\* C29: an announce whose response dict contains a failure reason raises
\* TrackerError and leaves peers, interval and min_interval as they were,
\* whatever else the response carries; when the reason is a byte string the
\* message of the error ends with "Tracker error: " and that reason.
C29_FailureReasonStops ==
  [][AnsweredFailure(output') =>
       /\ output'.st = "TrackerError"
       /\ tracker' = tracker
       /\ output'.ret = << >>
       /\ CanDecode(FailureOf(output')) =>
            LET tail == TrackerErrorPrefix \o FailureOf(output').b
                msg  == output'.msg
            IN  /\ Len(msg) >= Len(tail)
                /\ SubSeq(msg, Len(msg) - Len(tail) + 1, Len(msg)) = tail]_vars

\* C29 witness: after an announce that set peers, while interval has its
\* default, a response with a failure reason besides interval, min interval
\* and other peers was answered with TrackerError.
C29_Witness ==
  /\ AnsweredFailure(output)
  /\ CanDecode(FailureOf(output))
  /\ Has(output.decoded, KPeers)
  /\ Has(output.decoded, KInterval)
  /\ Has(output.decoded, KMinInterval)
  /\ At(output.decoded, KPeers).t = "bytes"
  /\ output.st = "TrackerError"
  /\ Len(tracker.peers) = 1
  /\ tracker.interval = BInt(DEFAULT_INTERVAL)
  /\ tracker.min_interval # At(output.decoded, KMinInterval)

\* The parts of a dotted string, split at the dots.
RECURSIVE SplitDots(_, _)
SplitDots(ip, part) ==
  IF ip = << >> THEN <<part>>
  ELSE IF Head(ip) = 46 THEN <<part>> \o SplitDots(Tail(ip), << >>)
  ELSE SplitDots(Tail(ip), Append(part, Head(ip)))

\* part is the decimal numeral of byte: digits only, no leading zero.
NumeralOf(part, byte) ==
  /\ Len(part) \in 1..3
  /\ \A k \in 1..Len(part) : part[k] \in 48..57
  /\ Len(part) > 1 => part[1] # 48
  /\ IntOf(part) = byte

\* C30: _parse_peers_compact of n bytes returns floor(n / 6) peers, without
\* raising; the k-th (from 0) has as ip the dotted decimal numerals of bytes
\* 6k..6k+3 and as port 256 * byte 6k+4 + byte 6k+5, so the peers are in the
\* order of the input and the bytes after the last whole record are dropped.
C30_CompactPeers ==
  output.fn = "parse_peers_compact" =>
    LET data  == input.data
        peers_ == output.peers
    IN  /\ output.st = "ok"
        /\ Len(peers_) = Len(data) \div 6
        /\ \A k \in 0..(Len(peers_) - 1) :
             LET parts == SplitDots(peers_[k + 1].ip, << >>)
             IN  /\ Len(parts) = 4
                 /\ \A j \in 1..4 : NumeralOf(parts[j], data[6 * k + j])
                 /\ peers_[k + 1].port = BInt(256 * data[6 * k + 5] + data[6 * k + 6])

\* C30 witness: 15 bytes, two records whose port bytes differ and 3 bytes
\* more, gave two peers.
C30_Witness ==
  /\ output.fn = "parse_peers_compact"
  /\ Len(input.data) = 15
  /\ Len(output.peers) = 2
  /\ input.data[5] # input.data[6]
  /\ input.data[1] >= 100
  /\ output.peers[1] # output.peers[2]

\* C31: the event parameter of the query of an announce is the event the
\* caller passed: started, stopped or completed, and empty when the caller
\* passed an empty event.
C31_EventAsPassed ==
  output.fn = "announce_call" /\ output.requested =>
    output.params.event = output.event

\* The URL is one of http or https.
IsHttpUrl(url) ==
  \/ StartsWith(url, B(<<"h", "t", "t", "p", ":", "/", "/">>))
  \/ StartsWith(url, B(<<"h", "t", "t", "p", "s", ":", "/", "/">>))

\* C32: announce on a torrent whose announce URL is not an http or https
\* URL raises TrackerError with the unsupported-protocol message, and makes
\* no request.
C32_UnsupportedProtocol ==
  /\ output.fn = "announce_call"
  /\ input.announce # << >>
  /\ ~IsHttpUrl(input.announce)
  => /\ output.st = "TrackerError"
     /\ StartsWith(output.msg, UnsupportedPrefix)
     /\ ~output.requested

\* v is an int, a byte string, or a list or dict of such values.
RECURSIVE InDomain(_)
InDomain(v) ==
  /\ v.t \in {"int", "bytes", "list", "dict"}
  /\ \A k \in 1..Len(v.items) : InDomain(v.items[k])

\* C39: decode raises BencodeDecodeError or returns an int, a byte string,
\* a list or a dict of such values, at every depth: never None, and no None
\* as a list element or as a dict value.
C39_DecodeInDomain ==
  output.fn = "decode" =>
    \/ output.st = "BencodeDecodeError"
    \/ output.st = "ok" /\ InDomain(output.v)

\* C40: when _parse_tracker_response raises, for whatever reason, peers,
\* interval and min_interval are what they were before the call.
C40_FailedParseKeepsState ==
  [][/\ output'.fn = "announce"
     /\ output'.parsed
     /\ output'.st # "ok"
     => tracker' = tracker]_vars

\* C34: perform_handshake accepts only the exact layout: add_peer returns no
\* session for a 68-byte response whose first byte is not 19, whatever the
\* protocol string and the info_hash after it.
C34_LengthByteChecked ==
  \A t \in Tasks :
    /\ Returned(t, "add_peer")
    /\ Len(task[t].resp) = HANDSHAKE_LEN
    /\ task[t].resp[1] # PSTRLEN
    => /\ task[t].ret.st = "none"
       /\ ~sess[task[t].peer].handshaken

\* The sessions add_peer has returned for address a whose connection is open.
OpenFor(a) ==
  {s \in SessIds : sess[s].made /\ sess[s].addr = a /\ sess[s].handshaken
                     /\ sess[s].writer = "open"}

\* C36: add_peer calls for one address that connect and handshake keep one
\* connection to it: no two sessions for the same address are open after
\* their handshakes, and the calls that return a session for an address
\* whose connection is open return the registered one.
C36_OneSessionPerAddress ==
  /\ \A a \in Addrs : Cardinality(OpenFor(a)) <= 1
  /\ \A t \in Tasks :
       (Returned(t, "add_peer") /\ task[t].ret.st = "sess"
          /\ sess[task[t].ret.sess].writer = "open")
       => /\ DictHas(peers, sess[task[t].ret.sess].addr)
          /\ DictGet(peers, sess[task[t].ret.sess].addr) = task[t].ret.sess

\* C37: a session that add_peer returns is connected at the moment of the
\* return, whatever close_all is doing.
C37_ReturnedSessionConnected ==
  [][\A t \in Tasks :
       (Returns(t, "add_peer") /\ task'[t].ret.st = "sess")
         => sess'[task'[t].ret.sess].connected]_vars

\* buf is a sequence of whole messages, each 4 bytes of length and as many
\* bytes as they say.
RECURSIVE AtBoundary(_)
AtBoundary(buf) ==
  \/ buf = << >>
  \/ /\ Len(buf) >= 4
     /\ Unpack32(SubSeq(buf, 1, 4)) + 4 <= Len(buf)
     /\ AtBoundary(Drop(buf, 4 + Unpack32(SubSeq(buf, 1, 4))))

\* C38: when request_piece returns after reading a message, the bytes left
\* in the stream start at a message boundary.
C38_StreamAtBoundary ==
  [][\A t \in Tasks :
       (Returns(t, "request_piece") /\ task'[t].length > 0
          /\ ~sess'[task'[t].peer].eof)
         => AtBoundary(sess'[task'[t].peer].inbuf)]_vars

\* C35: when close_all ends, normally or by an exception of a close, the
\* registry is empty and no session that was registered has an open
\* connection.
C35_CloseAllDespiteErrors ==
  [][\A t \in Tasks :
       Returns(t, "close_all") =>
         /\ peers' = << >>
         /\ \A k \in 1..Len(peers) : sess'[peers[k].sess].writer # "open"]_vars

\* Task t is suspended in a read of request_piece on a session whose
\* close() has called writer.close().
ReadingClosed(t) ==
  /\ task[t].pc \in RpPcs
  /\ sess[task[t].peer].writer = "closed"

\* C33: a close() on a session unblocks the request_piece that is waiting
\* for a response on it: that request_piece returns; the step of the close
\* that lets a waiting read go on lets it go on to a return without data,
\* and that is the return it makes; and when a close() ends, by its return
\* or by an exception of wait_closed, the connection of the session is
\* closed.
C33_CloseUnblocksRead ==
  /\ \A t \in Tasks : ReadingClosed(t) ~> (task[t].pc = "done")
  /\ [][\A t \in Tasks :
          (ReadingClosed(t) /\ ~CanResume(t) /\ CanResume(t)') =>
            LET p == sess'[task'[t].peer]
                l == RequestRead(task'[t], p.inbuf, p.eof, FALSE).l
            IN  l.pc = "done" /\ l.ret.st = "none"]_vars
  /\ [][\A t \in Tasks :
          (ReadingClosed(t) /\ sess[task[t].peer].eof /\ task'[t] # task[t]) =>
            task'[t] = RequestRead(task[t], sess[task[t].peer].inbuf, TRUE, FALSE).l]_vars
  /\ [][\A t \in Tasks :
          (task[t].pc = "ca_wait" /\ task'[t] # task[t]) =>
            LET p == sess'[peers[task[t].k].sess]
            IN  p.writer = "closed" /\ p.eof]_vars

\* C33 witness: a request_piece that was waiting on a session returned
\* without data after a close_all whose wait_closed on that session raised.
C33_Witness ==
  \E t, u \in Tasks :
    /\ Returned(t, "request_piece")
    /\ task[t].ret.st = "none"
    /\ task[t].length = 0
    /\ Returned(u, "close_all")
    /\ task[u].ret.st = "error"
    /\ peers[task[u].k].sess = task[t].peer
    /\ sess[task[t].peer].writer = "closed"
    /\ sess[task[t].peer].requests = 1

=============================================================================
